---- MODULE Spec2Model ----
(***************************************************************************)
(* Model of the SARIMAX-API-js regression core (src/sarimax.js) and of its *)
(* forecasting strategies.                                                 *)
(*                                                                         *)
(* JavaScript arrays are TLA+ sequences: the JS index j is the TLA+ index  *)
(* j + 1.  A nullable field holds None (null) or Some(v).                  *)
(*                                                                         *)
(* Numbers.  The training data are small integers.  A fitted coefficient   *)
(* is a rational function of the regularization parameter lambda, kept     *)
(* exactly as [n |-> p, d |-> q] with p, q polynomials in lambda (the      *)
(* sequence <<c0, c1, ...>> is c0 + c1*lambda + ...), and compared at      *)
(* lambda = 1 / LambdaInv.  Statistics that need a square root or a        *)
(* logarithm are kept as the exact arguments of that function.             *)
(***************************************************************************)
EXTENDS Integers, Sequences, FiniteSets, TLC

VARIABLES model, fitCall, fc, retStatic, retDynamic,
          scalerObj, call, varModel, gom, imported

vars == <<model, fitCall, fc, retStatic, retDynamic,
          scalerObj, call, varModel, gom, imported>>

(***************************************************************************)
(* Bounds of the model.                                                    *)
(***************************************************************************)
MaxLen == 5

MaxOrder == 2

MaxNob == 4

MaxForecastOrder == 3

(***************************************************************************)
(* Program constants.                                                      *)
(***************************************************************************)
LambdaInv == 1000000

StabilityNum == 999

StabilityDen == 1000

CorrectionNum == 995

DropCount == 2

(***************************************************************************)
(* Generic helpers: null, JS array operations, sums.                       *)
(***************************************************************************)
None == <<>>

Some(v) == <<v>>

Max2(a, b) == IF a >= b THEN a ELSE b

Min2(a, b) == IF a <= b THEN a ELSE b

\* the element of a one-element set; Only({ F(x) : x \in {e} }) is F(e) with e
\* evaluated once
Only(S) == CHOOSE x \in S : TRUE

\* the array with the elements of f, each evaluated once
AsArray(f) == f \o <<>>

RECURSIVE SumSeq(_)
SumSeq(s) == IF Len(s) = 0 THEN 0 ELSE Head(s) + SumSeq(Tail(s))

\* Array.prototype.slice(start, end) for 0 <= start; end is clamped to length
JsSlice(a, start, end) ==
  LET e == Min2(end, Len(a))
      s == Min2(start, Len(a))
  IN  IF e <= s THEN <<>> ELSE SubSeq(a, s + 1, e)

\* Array.prototype.slice(start) with start >= 0
JsSliceFrom(a, start) == JsSlice(a, start, Len(a))

\* Array.prototype.slice(-cnt): the last cnt elements; -0 is 0, so
\* slice(-0) is the whole array
JsSliceLast(a, cnt) ==
  IF cnt = 0 THEN a ELSE JsSlice(a, Max2(Len(a) - cnt, 0), Len(a))

Dot(a, b) == SumSeq([i \in 1..Len(a) |-> a[i] * b[i]])

(***************************************************************************)
(* Polynomials in lambda with integer coefficients.                        *)
(***************************************************************************)
PolyCoef(p, i) == IF i <= Len(p) THEN p[i] ELSE 0

PolyAdd(p, q) ==
  AsArray([i \in 1..Max2(Len(p), Len(q)) |-> PolyCoef(p, i) + PolyCoef(q, i)])

PolyScale(c, p) == AsArray([i \in 1..Len(p) |-> c * p[i]])

PolyMul(p, q) ==
  IF Len(p) = 0 \/ Len(q) = 0 THEN <<>>
  ELSE AsArray([i \in 1..(Len(p) + Len(q) - 1) |->
         SumSeq([a \in 1..Len(p) |->
                  IF (i - a + 1) >= 1 /\ (i - a + 1) <= Len(q)
                  THEN p[a] * q[i - a + 1] ELSE 0])])

RECURSIVE PolySum(_)
PolySum(ps) == IF Len(ps) = 0 THEN <<>> ELSE PolyAdd(Head(ps), PolySum(Tail(ps)))

\* digits of p(1/LambdaInv) * LambdaInv^(Len(p)-1) in base LambdaInv, lowest
\* power of lambda (most significant) first; only the first digit can be < 0
RECURSIVE Carry(_, _, _)
Carry(p, i, c) ==
  IF i = 1 THEN <<p[1] + c>>
  ELSE Carry(p, i - 1, (p[i] + c) \div LambdaInv) \o <<(p[i] + c) % LambdaInv>>

\* sign of the polynomial p at lambda = 1 / LambdaInv
SignAtLambda(p) ==
  IF Len(p) = 0 THEN 0
  ELSE LET ds == Carry(p, Len(p), 0)
       IN  IF ds[1] > 0 THEN 1
           ELSE IF ds[1] < 0 THEN -1
           ELSE IF \E i \in 2..Len(ds) : ds[i] # 0 THEN 1 ELSE 0

(***************************************************************************)
(* Matrices (sequences of rows).                                           *)
(***************************************************************************)
NumCols(M) == IF Len(M) = 0 THEN 0 ELSE Len(M[1])

\* math.multiply(math.transpose(A), A) for a matrix A with at least one row;
\* on the empty matrix math.multiply throws (see FitEstimate)
Gram(A) ==
  AsArray([i \in 1..NumCols(A) |-> AsArray([j \in 1..NumCols(A) |->
     SumSeq([r \in 1..Len(A) |-> A[r][i] * A[r][j]])])])

\* math.multiply(math.transpose(A), v)
TransposeTimes(A, v) ==
  AsArray([i \in 1..NumCols(A) |-> SumSeq([r \in 1..Len(A) |-> A[r][i] * v[r]])])

RemoveAt(s, i) == AsArray([j \in 1..(Len(s) - 1) |-> IF j < i THEN s[j] ELSE s[j + 1]])

Minor(M, i, j) == AsArray([r \in 1..(Len(M) - 1) |-> RemoveAt(RemoveAt(M, i)[r], j)])

\* determinant of a square matrix of polynomials (expansion along row 1)
RECURSIVE DetP(_)
DetP(M) ==
  IF Len(M) = 0 THEN <<1>>
  ELSE IF Len(M) = 1 THEN M[1][1]
  ELSE PolySum(AsArray([j \in 1..Len(M) |->
         PolyScale(IF j % 2 = 1 THEN 1 ELSE -1,
                   PolyMul(M[1][j], DetP(Minor(M, 1, j))))]))

Cofactor(M, i, j) ==
  PolyScale(IF (i + j) % 2 = 0 THEN 1 ELSE -1, DetP(Minor(M, i, j)))

\* numerators of math.multiply(math.inv(M), v): inv(M)[i][j] = Cofactor(M,j,i)/DetP(M)
SolveNumerators(M, v) ==
  AsArray([i \in 1..Len(M) |->
     PolySum(AsArray([j \in 1..Len(M) |-> PolyScale(v[j], Cofactor(M, j, i))]))])

ConstMatrix(A) ==
  AsArray([i \in 1..Len(A) |-> AsArray([j \in 1..Len(A[i]) |-> <<A[i][j]>>])])

\* math.add(XTX, math.multiply(lambda, math.identity(XTX.size())))
Regularized(A) ==
  AsArray([i \in 1..Len(A) |->
     AsArray([j \in 1..Len(A[i]) |-> <<A[i][j], IF i = j THEN 1 ELSE 0>>])])

HasZeroColumn(A) == \E j \in 1..Len(A) : \A i \in 1..Len(A) : A[i][j] = 0

HasDuplicateColumns(A) ==
  \E j1, j2 \in 1..Len(A) : j1 < j2 /\ \A i \in 1..Len(A) : A[i][j1] = A[i][j2]

(***************************************************************************)
(* class SARIMAX: constructor, laggedMatrix, fit.                          *)
(***************************************************************************)
\* new SARIMAX(endog, exog, order)
Constructor(endog, exog, order) ==
  [endog |-> endog, exog |-> exog, order |-> order,
   coefficients |-> None, trained |-> FALSE, stdErrors |-> None,
   tStats |-> None, pValues |-> None, residuals |-> None,
   rSquared |-> None, mse |-> None, aic |-> None, bic |-> None]

\* laggedMatrix with the lags oldest first: [data[i-lags], ..., data[i-1]]
laggedMatrixOldestFirst(data, lags) ==
  AsArray([r \in 1..(Len(data) - lags) |->
     AsArray([j \in 1..lags |-> data[(r + j) - 1]])])

\* laggedMatrix(data, lags): row for JS index i = lags..length-1 is
\* [data[i-1], ..., data[i-lags]]
laggedMatrix(data, lags) ==
  AsArray([r \in 1..(Len(data) - lags) |->
     AsArray([j \in 1..lags |-> data[(r + lags) - j]])])

\* the design matrix with the lag columns before the exogenous columns
DesignXLagsFirst(endog, exog, order) ==
  LET laggedEndog == laggedMatrix(endog, order)
      laggedExog == JsSliceFrom(exog, order)
  IN  AsArray([i \in 1..Len(laggedEndog) |-> laggedEndog[i] \o laggedExog[i]])

\* the design matrix X built by fit()
DesignX(endog, exog, order) ==
  LET laggedEndog == laggedMatrix(endog, order)
      laggedExog == JsSliceFrom(exog, order)
  IN  AsArray([i \in 1..Len(laggedEndog) |-> laggedExog[i] \o laggedEndog[i]])

\* the label vector y built by fit()
DesignY(endog, order) ==
  AsArray([i \in 1..Len(laggedMatrix(endog, order)) |-> endog[i + order]])

\* beta = inv(XTX + lambda I) XTY, as numerators over the common denominator
OlsNumerators(X, y) == SolveNumerators(Regularized(Gram(X)), TransposeTimes(X, y))

OlsDenominator(X) == DetP(Regularized(Gram(X)))

\* Math.abs(arSum) > 0.999 for arSum = S / D
ExceedsUnitRoot(S, D) ==
  LET absS == PolyScale(SignAtLambda(S), S)
      absD == PolyScale(SignAtLambda(D), D)
  IN  SignAtLambda(PolyAdd(PolyScale(StabilityDen, absS),
                           PolyScale(-StabilityNum, absD))) = 1

\* the coefficients left as the OLS solve gives them
StabilityUncorrected(N, D, numExog) == AsArray([i \in 1..Len(N) |-> [n |-> N[i], d |-> D]])

\* this.coefficients after the stability correction: the AR coefficients
\* (indices >= numExog) are multiplied by 0.995 / |arSum| when |arSum| > 0.999
StabilityCorrected(N, D, numExog) ==
  LET S == PolySum([i \in 1..(Len(N) - numExog) |-> N[i + numExog]])
      sgnD == SignAtLambda(D)
      absS == PolyScale(SignAtLambda(S), S)
  IN  AsArray([i \in 1..Len(N) |->
         IF i > numExog /\ ExceedsUnitRoot(S, D)
         THEN [n |-> PolyScale(CorrectionNum * sgnD, N[i]),
               d |-> PolyScale(StabilityDen, absS)]
         ELSE [n |-> N[i], d |-> D]])

\* determinant of the unregularized XTX
DetXTX(X) == DetP(ConstMatrix(Gram(X)))[1]

\* whether math.inv(XTX) throws "Cannot calculate inverse, determinant is
\* zero": for 1x1 and 2x2 matrices exactly when the determinant is 0; for larger
\* ones when Gauss-Jordan elimination meets an all-zero pivot column, which is
\* certain for a zero or a duplicated column and depends on rounding for any
\* other singular matrix
InvThrows(XTX, det) ==
  IF det # 0 THEN {FALSE}
  ELSE IF Len(XTX) <= 2 \/ HasZeroColumn(XTX) \/ HasDuplicateColumns(XTX) THEN {TRUE}
  ELSE BOOLEAN

\* X[i] . coefficients over the columns cols, which share a denominator
PartialDot(row, coefficients, cols) ==
  [n |-> PolySum(AsArray([c \in 1..Len(cols) |->
            PolyScale(row[cols[c]], coefficients[cols[c]].n)])),
   d |-> IF Len(cols) = 0 THEN <<1>> ELSE coefficients[cols[1]].d]

\* residuals of the OLS estimate, whatever coefficients are stored
ResidualsOfOls(X, y, coefficients, numExog) ==
  Only({ AsArray([i \in 1..Len(y) |->
            [y |-> y[i],
             exog |-> PartialDot(X[i], ols, [c \in 1..numExog |-> c]),
             ar |-> PartialDot(X[i], ols,
                               [c \in 1..(Len(ols) - numExog) |-> c + numExog])]]) :
         ols \in { AsArray([j \in 1..Len(N) |-> [n |-> N[j], d |-> D]]) :
                    N \in {OlsNumerators(X, y)}, D \in {OlsDenominator(X)} } })

\* residuals = yVector - XMatrix * correctedBeta (lines 179-181): for every
\* row y[i] less the exogenous part and the AR part of X[i] . coefficients
Residuals(X, y, coefficients, numExog) ==
  AsArray([i \in 1..Len(y) |->
     [y |-> y[i],
      exog |-> PartialDot(X[i], coefficients, [c \in 1..numExog |-> c]),
      ar |-> PartialDot(X[i], coefficients,
                        [c \in 1..(Len(coefficients) - numExog) |-> c + numExog])]])

\* the statistics part of fit() (lines 179-265), given the values computed
\* before it
FitStatistics(m, invThrows, X, y, XTX, det, D, coefficients) ==
  LET n == Len(y)
      k == Len(coefficients)
      stdErrors == AsArray([i \in 1..Len(XTX) |->
                      [invNum |-> Cofactor(ConstMatrix(XTX), i, i)[1], invDen |-> det]])
      tStats == AsArray([i \in 1..Len(coefficients) |->
                   [b |-> coefficients[i], se |-> stdErrors[i]]])
      pValues == AsArray([i \in 1..Len(coefficients) |-> [t |-> tStats[i], df |-> n - k]])
      residuals == Residuals(X, y, coefficients, Len(m.exog[1]))
      sst == [num |-> (n * Dot(y, y)) - (SumSeq(y) * SumSeq(y)), den |-> n]
  IN  IF SignAtLambda(D) = 0
      THEN \* line 159: math.inv(regularizedXTX) throws, nothing assigned yet
           [model |-> m, outcome |-> "threw", X |-> X, y |-> y]
      ELSE IF invThrows
      THEN \* line 188: math.inv(XTX) throws after this.coefficients was assigned
           [model |-> [m EXCEPT !.coefficients = Some(coefficients)],
            outcome |-> "threw", X |-> X, y |-> y]
      ELSE [model |-> [m EXCEPT !.coefficients = Some(coefficients),
                                !.aic = Some([stat |-> "aic", k |-> k, n |-> n]),
                                !.bic = Some([stat |-> "bic", k |-> k, n |-> n]),
                                !.trained = TRUE,
                                !.stdErrors = Some(stdErrors),
                                !.tStats = Some(tStats),
                                !.pValues = Some(pValues),
                                !.residuals = Some(residuals),
                                !.rSquared = Some(sst),
                                !.mse = Some([sse |-> residuals, df |-> n - k])],
            outcome |-> "ok", X |-> X, y |-> y]

\* the estimation part of fit() (lines 147-176) for the design X, y, followed
\* by the statistics part: the possible results.  Without a training row
\* (endog no longer than order) X is math.matrix([]) and line 151,
\* math.multiply(XT, XMatrix), throws "Cannot multiply two empty vectors"
\* before any field is assigned.
FitEstimate(m, X, y) ==
  IF Len(X) = 0 THEN {[model |-> m, outcome |-> "threw", X |-> X, y |-> y]}
  ELSE
  Only({ Only({ { FitStatistics(m, invThrows, X, y, XTX, det, D, coefficients) :
                  invThrows \in InvThrows(XTX, det) } :
                coefficients \in {StabilityCorrected(N, D, Len(m.exog[1]))} }) :
         XTX \in {Gram(X)}, det \in {DetXTX(X)},
         D \in {OlsDenominator(X)}, N \in {OlsNumerators(X, y)} })

\* the whole of fit(): the possible results, each the model after the call and
\* how the call ended
FitResults(m) ==
  Only({ FitEstimate(m, X, y) :
         X \in {DesignX(m.endog, m.exog, m.order)},
         y \in {DesignY(m.endog, m.order)} })

(***************************************************************************)
(* Training inputs.                                                        *)
(***************************************************************************)
Vals == {0, 1}

\* the target series: every 0/1 series and the ramp 1, 2, ..., n
EndogSeries(n) == [1..n -> Vals] \cup {[t \in 1..n |-> t]}

ExogPatterns == {"zero", "alt", "late"}

NumExogChoices == {1, 2}

\* value of an exogenous channel at (1-based) time t
PatternValue(p, t) ==
  CASE p = "zero" -> 0
    [] p = "alt" -> t % 2
    [] OTHER -> IF t >= 3 THEN 1 ELSE 0

ExogMatrix(ps, n) ==
  AsArray([t \in 1..n |-> AsArray([c \in 1..Len(ps) |-> PatternValue(ps[c], t)])])

TrainingInputs ==
  { [endog |-> e, exog |-> ExogMatrix(ps, Len(e)), order |-> p] :
      e \in UNION { EndogSeries(n) : n \in 2..MaxLen },
      ps \in UNION { [1..c -> ExogPatterns] : c \in NumExogChoices },
      p \in 1..MaxOrder }

NoForecast == [op |-> "none"]

NoCall == [outcome |-> "none", X |-> <<>>, y |-> <<>>]

\* an object that has not been constructed, and no call made on one
NoObject == [kind |-> "none"]

NoOperation == [op |-> "none"]

\* the scaler, the VAR model and the KfGom instances take no part
otherVars == <<scalerObj, call, varModel, gom, imported>>

OthersAbsent ==
  /\ scalerObj = NoObject
  /\ call = NoOperation
  /\ varModel = NoObject
  /\ gom = NoObject
  /\ imported = NoObject

(***************************************************************************)
(* Specification of the regression core.                                   *)
(***************************************************************************)
InitFit ==
  /\ \E inp \in TrainingInputs :
       model = Constructor(inp.endog, inp.exog, inp.order)
  /\ fitCall = NoCall
  /\ fc = NoForecast
  /\ retStatic = NoForecast
  /\ retDynamic = NoForecast
  /\ OthersAbsent

\* model.fit()
Fit ==
  /\ \E r \in FitResults(model) :
       /\ model' = r.model
       /\ fitCall' = [outcome |-> r.outcome, X |-> r.X, y |-> r.y]
  /\ UNCHANGED <<fc, retStatic, retDynamic, otherVars>>

NextFit == Fit

SpecFit == InitFit /\ [][NextFit]_vars

(***************************************************************************)
(* Scalers, as the forecasting strategies read them.                       *)
(***************************************************************************)
\* a fitted StandardScaler: the fields mean and std
StandardScaler(mean, std) == [kind |-> "StandardScaler", mean |-> mean, std |-> std]

\* a fitted MinMaxScaler: the fields min, max, scale and minScale
MinMaxScaler(min, max) ==
  [kind |-> "MinMaxScaler", min |-> min, max |-> max,
   scale |-> AsArray([i \in 1..Len(max) |-> max[i] - min[i]]), minScale |-> min]

\* scaler.inverseTransformSingle(values)[idx] for values[idx] = val (idx a JS index)
InverseTransformAt(scaler, val, idx) ==
  IF scaler.kind = "StandardScaler"
  THEN (val * scaler.std[idx + 1]) + scaler.mean[idx + 1]
  ELSE (val * scaler.scale[idx + 1]) + scaler.minScale[idx + 1]

\* values.map(val => val * scaler.std[idx] + scaler.mean[idx]) throws a
\* TypeError when the callback runs and scaler.std is undefined
DenormalizeThrows(values, scaler) == Len(values) > 0 /\ "std" \notin DOMAIN scaler

Denormalize(values, scaler, idx) ==
  AsArray([j \in 1..Len(values) |->
     (values[j] * scaler.std[idx + 1]) + scaler.mean[idx + 1]])

(***************************************************************************)
(* SARIMAX.apply(...).getPrediction() and the forecasting strategies.  The *)
(* strategies read model.order, model.trained and model.coefficients; the  *)
(* trained models of this part have integer coefficients.                  *)
(***************************************************************************)
\* input = [...lastExog, ...lastEndog] of getPrediction, for the windows
\* handed to apply
PredictionInput(m, endogData, exogData) ==
  exogData[Len(exogData)] \o JsSliceLast(endogData, m.order)

\* model.apply(endogData, exogData).getPrediction().predicted_mean[0]
ApplyPrediction(m, endogData, exogData) ==
  Dot(PredictionInput(m, endogData, exogData), m.coefficients)

\* the JS indices 0..n-1: the time index of every row of the test matrix
Indices(n) == AsArray([j \in 1..n |-> j - 1])

\* one iteration of a forecasting loop at the JS index i, over the target
\* history hist: the windows given to apply, where they come from, and the
\* prediction
ForecastStep(m, hist, exogData, i) ==
  LET idx == Indices(Len(exogData))
      endoWindow == JsSlice(hist, i - m.order, i)
      exogWindow == JsSlice(exogData, i - m.order, i)
  IN  [t |-> i,
       lagIdx |-> JsSliceLast(JsSlice(idx, i - m.order, i), m.order),
       exogIdx |-> JsSlice(idx, i - m.order, i)[Len(exogWindow)],
       input |-> PredictionInput(m, endoWindow, exogWindow),
       pred |-> ApplyPrediction(m, endoWindow, exogWindow)]

\* the iterations of staticForecasting's loop: i = order .. nob - 1
StaticSteps(m, endoData, exogData) ==
  AsArray([j \in 1..(Len(endoData) - m.order) |->
     ForecastStep(m, endoData, exogData, (m.order + j) - 1)])

\* origValues pairing each prediction with the observation one index earlier
StaticActualsPrevious(endoData, steps) ==
  AsArray([j \in 1..Len(steps) |-> endoData[steps[j].t]])

\* origValues of staticForecasting: origValues.push(endoData[i]) in iteration i
StaticActuals(endoData, steps) ==
  AsArray([j \in 1..Len(steps) |-> endoData[steps[j].t + 1]])

\* staticForecasting(model, testData, indEnd, indExo, scaler, targetAngleIndex)
StaticForecasting(m, testData, indEnd, indExo, scaler, targetAngleIndex) ==
  LET endoData == AsArray([r \in 1..Len(testData) |-> testData[r][indEnd + 1]])
      exogData == AsArray([r \in 1..Len(testData) |->
                    AsArray([c \in 1..Len(indExo) |-> testData[r][indExo[c] + 1]])])
  IN  Only({ LET predStatic == AsArray([j \in 1..Len(steps) |-> steps[j].pred])
                 origValues == StaticActuals(endoData, steps)
                 stepIdx == AsArray([j \in 1..Len(steps) |-> steps[j].t])
             IN  IF DenormalizeThrows(predStatic, scaler)
                 THEN [op |-> "static", threw |-> TRUE, steps |-> steps,
                       normPred |-> predStatic, normOrig |-> origValues,
                       predStatic |-> <<>>, origValues |-> <<>>,
                       predIdx |-> <<>>]
                 ELSE [op |-> "static", threw |-> FALSE, steps |-> steps,
                       normPred |-> predStatic, normOrig |-> origValues,
                       predStatic |-> Denormalize(predStatic, scaler, targetAngleIndex),
                       origValues |-> Denormalize(origValues, scaler, targetAngleIndex),
                       predIdx |-> stepIdx] :
             steps \in {StaticSteps(m, endoData, exogData)} })

\* the iterations of dynamicForecasting's loop from the JS index Len(hist) on,
\* each appending its prediction to the history predDynamic
RECURSIVE DynamicSteps(_, _, _, _)
DynamicSteps(m, hist, exogData, nob) ==
  IF Len(hist) >= nob \/ Len(hist) < m.order THEN <<>>
  ELSE Only({ <<step>> \o DynamicSteps(m, Append(hist, step.pred), exogData, nob) :
              step \in {ForecastStep(m, hist, exogData, Len(hist))} })

\* predFromSecond = denormalizedPred.slice(2)
DropSeeds(values) == JsSliceFrom(values, DropCount)

\* dynamicForecasting(model, testData, indEnd, indExo, scaler, targetAngleIndex)
DynamicForecasting(m, testData, indEnd, indExo, scaler, targetAngleIndex) ==
  LET nob == Len(testData)
      endoData == AsArray([r \in 1..Len(testData) |-> testData[r][indEnd + 1]])
      exogData == AsArray([r \in 1..Len(testData) |->
                    AsArray([c \in 1..Len(indExo) |-> testData[r][indExo[c] + 1]])])
      seeds == JsSlice(endoData, 0, m.order)
  IN  Only({ LET predDynamic == seeds \o AsArray([j \in 1..Len(steps) |-> steps[j].pred])
                 origValues == endoData
                 fullPredIdx == JsSlice(Indices(nob), 0, m.order)
                                  \o AsArray([j \in 1..Len(steps) |-> steps[j].t])
             IN  IF DenormalizeThrows(predDynamic, scaler)
                 THEN [op |-> "dynamic", threw |-> TRUE, steps |-> steps,
                       normPred |-> predDynamic, normOrig |-> origValues,
                       predDynamic |-> <<>>, origValues |-> <<>>,
                       fullPredDynamic |-> <<>>, fullOrigValues |-> <<>>,
                       predIdx |-> <<>>, fullPredIdx |-> <<>>]
                 ELSE [op |-> "dynamic", threw |-> FALSE, steps |-> steps,
                       normPred |-> predDynamic, normOrig |-> origValues,
                       predDynamic |->
                         DropSeeds(Denormalize(predDynamic, scaler, targetAngleIndex)),
                       origValues |->
                         DropSeeds(Denormalize(origValues, scaler, targetAngleIndex)),
                       fullPredDynamic |->
                         Denormalize(predDynamic, scaler, targetAngleIndex),
                       fullOrigValues |->
                         Denormalize(origValues, scaler, targetAngleIndex),
                       predIdx |-> DropSeeds(fullPredIdx),
                       fullPredIdx |-> fullPredIdx] :
             steps \in {DynamicSteps(m, seeds, exogData, nob)} })

(***************************************************************************)
(* Forecasting inputs: a trained model, a normalized test matrix whose     *)
(* column 0 is the target and column 1 the exogenous channel, a scaler.    *)
(***************************************************************************)
\* coefficient vectors [exog, lag-1, ..., lag-order]
CoefficientChoices(order) ==
  { AsArray([i \in 1..(order + 1) |-> 1]), AsArray([i \in 1..(order + 1) |-> i]) }

TrainedModels ==
  { [order |-> p, trained |-> TRUE, coefficients |-> c] :
      p \in 1..MaxForecastOrder, c \in UNION { CoefficientChoices(q) : q \in 1..MaxForecastOrder } }

TestMatrices ==
  { AsArray([t \in 1..Len(e) |-> <<e[t], PatternValue(x, t)>>]) :
      e \in UNION { [1..n -> Vals] : n \in 0..MaxNob }, x \in {"alt", "late"} }

Scalers ==
  { StandardScaler(<<0, 0>>, <<1, 1>>), StandardScaler(<<1, 0>>, <<2, 1>>),
    MinMaxScaler(<<0, 0>>, <<2, 1>>) }

ForecastInputs ==
  { [op |-> "call", model |-> m, testData |-> d, indEnd |-> 0, indExo |-> <<1>>,
     scaler |-> s, targetAngleIndex |-> 0] :
      m \in { tm \in TrainedModels : Len(tm.coefficients) = tm.order + 1 },
      d \in TestMatrices, s \in Scalers }

(***************************************************************************)
(* Specification of the forecasting strategies.                            *)
(***************************************************************************)
InitForecast ==
  /\ model = Constructor(<<>>, <<>>, 1)
  /\ fitCall = NoCall
  /\ fc \in ForecastInputs
  /\ retStatic = NoForecast
  /\ retDynamic = NoForecast
  /\ OthersAbsent

\* staticForecasting(fc.model, fc.testData, ...)
Static ==
  /\ fc.op = "call"
  /\ retStatic' = StaticForecasting(fc.model, fc.testData, fc.indEnd, fc.indExo,
                                    fc.scaler, fc.targetAngleIndex)
  /\ UNCHANGED <<model, fitCall, fc, retDynamic, otherVars>>

\* dynamicForecasting(fc.model, fc.testData, ...)
Dynamic ==
  /\ fc.op = "call"
  /\ retDynamic' = DynamicForecasting(fc.model, fc.testData, fc.indEnd, fc.indExo,
                                      fc.scaler, fc.targetAngleIndex)
  /\ UNCHANGED <<model, fitCall, fc, retStatic, otherVars>>

NextForecast == Static \/ Dynamic

SpecForecast == InitForecast /\ [][NextForecast]_vars

(***************************************************************************)
(* Properties of the regression core.                                      *)
(***************************************************************************)
PolyEq(p, q) == \A i \in 1..Max2(Len(p), Len(q)) : PolyCoef(p, i) = PolyCoef(q, i)

\* the training row the specification describes for the (1-based) time t:
\* exog[t] followed by the target at t-1, t-2, ..., t-order
ExpectedRow(m, t) == m.exog[t] \o [j \in 1..m.order |-> m.endog[t - j]]

ExpectedDesign(m) ==
  AsArray([r \in 1..(Len(m.endog) - m.order) |-> ExpectedRow(m, r + m.order)])

ExpectedLabels(m) ==
  AsArray([r \in 1..(Len(m.endog) - m.order) |-> m.endog[r + m.order]])

\* a target shorter than the order gives no training example, and fit throws
ShortTargetBuildsNothing ==
  (fitCall.outcome # "none" /\ Len(model.endog) <= model.order) =>
    /\ fitCall.X = <<>>
    /\ fitCall.y = <<>>
    /\ fitCall.outcome = "threw"

\* C3: for a target of length n >= p, fit builds exactly n - p training
\* examples; the example for time t in p..n-1 has the feature row exog[t]
\* followed by y[t-1], ..., y[t-p] and the label y[t]
C3_TrainingExamples ==
  (fitCall.outcome # "none" /\ Len(model.endog) >= model.order) =>
    /\ Len(fitCall.X) = Len(model.endog) - model.order
    /\ Len(fitCall.y) = Len(model.endog) - model.order
    /\ \A t \in (model.order + 1)..Len(model.endog) :
         /\ fitCall.X[t - model.order] = ExpectedRow(model, t)
         /\ fitCall.y[t - model.order] = model.endog[t]

\* fit has run on the ramp 1..5 with order 2: the first row's lags are [2, 1]
\* and its label is 3
C3_Witness ==
  /\ fitCall.outcome # "none"
  /\ model.endog = <<1, 2, 3, 4, 5>>
  /\ model.order = 2
  /\ Len(fitCall.X) = 3
  /\ JsSliceLast(fitCall.X[1], 2) = <<2, 1>>
  /\ fitCall.y[1] = 3

\* the coefficients solve the regularized normal equations of the design whose
\* columns are the exogenous columns in the supplied order followed by lag-1,
\* ..., lag-order; when the stability correction rescaled the AR coefficients
\* (their denominator differs from the exogenous one) the AR numerators are
\* CorrectionNum times those of that solution
CoefficientOrder(m) ==
  LET c == m.coefficients[1]
      numExog == Len(m.exog[1])
      M == Regularized(Gram(ExpectedDesign(m)))
      v == TransposeTimes(ExpectedDesign(m), ExpectedLabels(m))
      uncorrected == \A i \in 1..Len(c) : c[i].d = c[1].d
      lhs(r, w) ==
        PolySum(AsArray([j \in 1..Len(c) |->
          PolyScale(IF j <= numExog THEN w ELSE 1, PolyMul(M[r][j], c[j].n))]))
  IN  IF uncorrected
      THEN \A r \in 1..Len(c) : PolyEq(lhs(r, 1), PolyScale(v[r], c[1].d))
      ELSE /\ \A i \in 1..Len(c) : i <= numExog => c[i].d = c[1].d
           /\ \A i, j \in 1..Len(c) :
                (i > numExog /\ j > numExog) => c[i].d = c[j].d
           /\ \A r \in 1..Len(c) :
                PolyEq(lhs(r, CorrectionNum),
                       PolyScale(CorrectionNum * v[r], c[1].d))

\* C4: in every trained state coefficients has exog[0].length + order entries,
\* exogenous coefficients first, then the AR coefficients lag-1..lag-order, and
\* stdErrors, tStats and pValues have the same length
C4_CoefficientShape ==
  model.trained =>
    /\ Len(model.coefficients[1]) = Len(model.exog[1]) + model.order
    /\ Len(model.stdErrors[1]) = Len(model.coefficients[1])
    /\ Len(model.tStats[1]) = Len(model.coefficients[1])
    /\ Len(model.pValues[1]) = Len(model.coefficients[1])
    /\ CoefficientOrder(model)

\* a model trained with order 2 and one exogenous channel on a non-singular
\* design, whose lag-1 and lag-2 coefficients differ
C4_Witness ==
  /\ model.trained
  /\ model.order = 2
  /\ Len(model.exog[1]) = 1
  /\ model.stdErrors[1][1].invDen # 0
  /\ model.coefficients[1][2] # model.coefficients[1][3]

FittedFields(m) ==
  <<m.coefficients, m.stdErrors, m.tStats, m.pValues, m.residuals,
    m.rSquared, m.mse, m.aic, m.bic>>

\* C5: the fitted fields are either all unset (and the model untrained) or all
\* set (and the model trained)
C5_AllOrNothing ==
  \/ /\ ~model.trained
     /\ \A i \in 1..Len(FittedFields(model)) : FittedFields(model)[i] = None
  \/ /\ model.trained
     /\ \A i \in 1..Len(FittedFields(model)) : FittedFields(model)[i] # None

\* C6: fit completes and marks the model trained when the design matrix has an
\* all-zero or a duplicated column (X'X singular)
C6_SingularFitSucceeds ==
  (/\ fitCall.outcome # "none"
   /\ \/ HasZeroColumn(Gram(fitCall.X))
      \/ HasDuplicateColumns(Gram(fitCall.X)))
    => (fitCall.outcome = "ok" /\ model.trained)

(***************************************************************************)
(* Properties of the forecasting strategies.                               *)
(***************************************************************************)
\* the target and exogenous series of the test matrix of the call
EndoData == AsArray([r \in 1..Len(fc.testData) |-> fc.testData[r][fc.indEnd + 1]])

ExogData ==
  AsArray([r \in 1..Len(fc.testData) |->
     AsArray([c \in 1..Len(fc.indExo) |-> fc.testData[r][fc.indExo[c] + 1]])])

\* the steps cover every index from order to the end of the test matrix
StepsCoverTest(steps) ==
  /\ Len(steps) = Max2(Len(fc.testData) - fc.model.order, 0)
  /\ \A j \in 1..Len(steps) : steps[j].t = (fc.model.order + j) - 1

\* the lag inputs of the step are the entries of hist at t-1 .. t-order
LagsFrom(step, hist) ==
  /\ {step.lagIdx[k] : k \in 1..Len(step.lagIdx)} = (step.t - fc.model.order)..(step.t - 1)
  /\ \A k \in 1..Len(step.lagIdx) :
       step.input[Len(fc.indExo) + k] = hist[step.lagIdx[k] + 1]

\* the exogenous input of the step is the observed exogenous row at time t
ExogCurrent(step) ==
  /\ step.exogIdx = step.t
  /\ SubSeq(step.input, 1, Len(fc.indExo)) = ExogData[step.t + 1]

\* the exogenous input of the step is the observed exogenous row at time t-1
ExogPrevious(step) ==
  /\ step.exogIdx = step.t - 1
  /\ SubSeq(step.input, 1, Len(fc.indExo)) = ExogData[step.t]

\* the lag inputs of every static step are observed target values
StaticLagsObserved ==
  retStatic.op = "static" =>
    /\ StepsCoverTest(retStatic.steps)
    /\ \A j \in 1..Len(retStatic.steps) : LagsFrom(retStatic.steps[j], EndoData)

\* C1: the static prediction for every t from order to the end is computed from
\* the observed targets at t-1..t-order and the observed exogenous row at t
C1_StaticInputs ==
  /\ StaticLagsObserved
  /\ retStatic.op = "static" =>
       \A j \in 1..Len(retStatic.steps) : ExogCurrent(retStatic.steps[j])

\* what the code does instead: the exogenous row of every static step is the
\* one observed at t-1
StaticExogPrevious ==
  retStatic.op = "static" =>
    \A j \in 1..Len(retStatic.steps) : ExogPrevious(retStatic.steps[j])

\* the history of dynamicForecasting starts with the first order observed
\* targets, and the lag inputs of every step are history entries (seeds or
\* earlier predictions)
DynamicLagsFromHistory ==
  retDynamic.op = "dynamic" =>
    /\ StepsCoverTest(retDynamic.steps)
    /\ JsSlice(retDynamic.normPred, 0, fc.model.order)
         = JsSlice(EndoData, 0, fc.model.order)
    /\ \A j \in 1..Len(retDynamic.steps) :
         /\ retDynamic.normPred[fc.model.order + j] = retDynamic.steps[j].pred
         /\ LagsFrom(retDynamic.steps[j], retDynamic.normPred)

\* C2: dynamicForecasting seeds its history with the first order observed
\* targets, takes the lags of every later t from the history at t-1..t-order,
\* and takes the exogenous input of t from the observed exogenous row at t
C2_DynamicInputs ==
  /\ DynamicLagsFromHistory
  /\ retDynamic.op = "dynamic" =>
       \A j \in 1..Len(retDynamic.steps) : ExogCurrent(retDynamic.steps[j])

\* what the code does instead: the exogenous row of every dynamic step is the
\* one observed at t-1
DynamicExogPrevious ==
  retDynamic.op = "dynamic" =>
    \A j \in 1..Len(retDynamic.steps) : ExogPrevious(retDynamic.steps[j])

\* entry j of actual is the denormalized observation at the time index idx[j]
\* that entry j of predicted was produced for
AlignedWith(predicted, actual, idx) ==
  /\ Len(predicted) = Len(actual)
  /\ Len(idx) = Len(predicted)
  /\ \A j \in 1..Len(actual) :
       /\ idx[j] + 1 \in 1..Len(EndoData)
       /\ actual[j] = InverseTransformAt(fc.scaler, EndoData[idx[j] + 1],
                                         fc.targetAngleIndex)

\* C7: each strategy returns predicted and actual sequences of equal length
\* whose entries j refer to the same time index of the test series
C7_Aligned ==
  /\ (retStatic.op = "static" /\ ~retStatic.threw) =>
       AlignedWith(retStatic.predStatic, retStatic.origValues, retStatic.predIdx)
  /\ (retDynamic.op = "dynamic" /\ ~retDynamic.threw) =>
       /\ AlignedWith(retDynamic.predDynamic, retDynamic.origValues,
                      retDynamic.predIdx)
       /\ AlignedWith(retDynamic.fullPredDynamic, retDynamic.fullOrigValues,
                      retDynamic.fullPredIdx)

\* both strategies have returned at least two entries, from a test series that
\* is not constant
C7_Witness ==
  /\ retStatic.op = "static" /\ ~retStatic.threw
  /\ retDynamic.op = "dynamic" /\ ~retDynamic.threw
  /\ Len(retStatic.predStatic) >= 2
  /\ Len(retDynamic.predDynamic) >= 2
  /\ retStatic.origValues[1] # retStatic.origValues[2]

\* C8: with a StandardScaler and a test matrix no longer than order, both
\* strategies return empty predicted and actual sequences without throwing
C8_ShortTestEmpty ==
  (Len(fc.testData) <= fc.model.order /\ fc.scaler.kind = "StandardScaler") =>
    /\ retStatic.op = "static" =>
         /\ ~retStatic.threw
         /\ retStatic.predStatic = <<>>
         /\ retStatic.origValues = <<>>
    /\ retDynamic.op = "dynamic" =>
         /\ ~retDynamic.threw
         /\ retDynamic.predDynamic = <<>>
         /\ retDynamic.origValues = <<>>

\* C9: for the same model, test matrix (longer than order) and StandardScaler
\* the first predicted entry of both strategies is the same
C9_FirstForecastEqual ==
  (/\ retStatic.op = "static" /\ ~retStatic.threw
   /\ retDynamic.op = "dynamic" /\ ~retDynamic.threw
   /\ Len(fc.testData) > fc.model.order)
    => /\ Len(retDynamic.predDynamic) >= 1
       /\ retStatic.predStatic[1] = retDynamic.predDynamic[1]

InverseTransformed(values, normalized) ==
  /\ Len(values) = Len(normalized)
  /\ \A j \in 1..Len(values) :
       values[j] = InverseTransformAt(fc.scaler, normalized[j], fc.targetAngleIndex)

\* C10: with either scaler variant, every returned value is the scaler's
\* inverse transform of the normalized value at the target column
C10_ScalerInverse ==
  /\ retStatic.op = "static" =>
       /\ ~retStatic.threw
       /\ InverseTransformed(retStatic.predStatic, retStatic.normPred)
       /\ InverseTransformed(retStatic.origValues, retStatic.normOrig)
  /\ retDynamic.op = "dynamic" =>
       /\ ~retDynamic.threw
       /\ InverseTransformed(retDynamic.fullPredDynamic, retDynamic.normPred)
       /\ InverseTransformed(retDynamic.fullOrigValues, retDynamic.normOrig)

(***************************************************************************)
(* JavaScript numbers of the scalers and the metrics: IEEE 754 doubles.    *)
(* A number is NaN, Infinity, -Infinity or finite.  A finite number is     *)
(* kept in one of two forms.  The short form is n / d with |n| below       *)
(* LimbBase and d a power of two up to LimbBase, in lowest terms; the two  *)
(* zeros are 0 / 1 (+0) and 0 / -1 (-0).  Every other double is kept in    *)
(* the long form: the sign neg, the odd natural sig of at most             *)
(* SignificandBits binary digits and the exponent exp, for the value       *)
(* sig * 2^exp.  A double has one form only, so that equal doubles are     *)
(* equal records.  Every operation gives the double nearest to the exact   *)
(* result, ties to even, with overflow to the infinities and gradual       *)
(* underflow.                                                              *)
(*                                                                         *)
(* Naturals of any size are sequences of digits to the base LimbBase, the  *)
(* least significant first, without leading zeros.                         *)
(***************************************************************************)
SignificandBits == 53

\* the exponent of the least subnormal double, 2^-1074
MinExponent == -1074

\* doubles are below 2^1024
MaxExponent == 1024

LimbBits == 15

LimbBase == 2 ^ LimbBits

RECURSIVE GCD(_, _)
GCD(a, b) == IF b = 0 THEN a ELSE GCD(b, a % b)

Abs(i) == IF i < 0 THEN -i ELSE i

NaN == [k |-> "NaN", n |-> 0, d |-> 1]

Infinity == [k |-> "Infinity", n |-> 1, d |-> 1]

NegInfinity == [k |-> "Infinity", n |-> -1, d |-> 1]

NegativeZero == [k |-> "fin", n |-> 0, d |-> -1]

PositiveZero == [k |-> "fin", n |-> 0, d |-> 1]

IsNaN(a) == a.k = "NaN"

IsFinite(a) == a.k = "fin"

\* a finite number in the short form
IsShort(a) == "n" \in DOMAIN a

\* +0 or -0
NumIsZero(a) == IsFinite(a) /\ IsShort(a) /\ a.n = 0

SignedZero(negative) == IF negative THEN NegativeZero ELSE PositiveZero

SignedInfinity(negative) == IF negative THEN NegInfinity ELSE Infinity

\* the sign bit of a number that is not NaN
SignBit(a) ==
  IF IsFinite(a) /\ ~IsShort(a) THEN a.neg ELSE a.n < 0 \/ (a.n = 0 /\ a.d < 0)

Zeros(cnt) == [i \in 1..cnt |-> 0]

\* the natural i < 2^31
BigOfInt(i) ==
  IF i = 0 THEN <<>>
  ELSE IF i < LimbBase THEN <<i>>
  ELSE IF i < LimbBase * LimbBase THEN <<i % LimbBase, i \div LimbBase>>
  ELSE <<i % LimbBase, (i \div LimbBase) % LimbBase, i \div (LimbBase * LimbBase)>>

\* the digits of x up to the last one other than zero
Trimmed(x) ==
  SubSeq(x, 1, CHOOSE i \in 0..Len(x) :
                 /\ i = 0 \/ x[i] # 0
                 /\ \A j \in (i + 1)..Len(x) : x[j] = 0)

\* x without its leading zeros
BigTrim(x) == Trimmed(AsArray(x))

DigitAt(x, i) == IF i \in 1..Len(x) THEN x[i] ELSE 0

\* place i of x + y takes a carry: a place below it gives one and the places
\* between pass it on
CarryInto(x, y, i) ==
  \E j \in 1..(i - 1) :
    /\ DigitAt(x, j) + DigitAt(y, j) >= LimbBase
    /\ \A m \in (j + 1)..(i - 1) : DigitAt(x, m) + DigitAt(y, m) = LimbBase - 1

BigAdd(x, y) ==
  BigTrim([i \in 1..(Max2(Len(x), Len(y)) + 1) |->
             (DigitAt(x, i) + DigitAt(y, i) + (IF CarryInto(x, y, i) THEN 1 ELSE 0))
               % LimbBase])

\* place i of x - y gives a borrow to a place below it
BorrowFrom(x, y, i) ==
  \E j \in 1..(i - 1) :
    /\ x[j] < DigitAt(y, j)
    /\ \A m \in (j + 1)..(i - 1) : x[m] = DigitAt(y, m)

\* x - y for x >= y
BigSub(x, y) ==
  BigTrim([i \in 1..Len(x) |->
             (((x[i] - DigitAt(y, i)) - (IF BorrowFrom(x, y, i) THEN 1 ELSE 0)) + LimbBase)
               % LimbBase])

\* x < y
BigLess(x, y) ==
  \/ Len(x) < Len(y)
  \/ /\ Len(x) = Len(y)
     /\ \E i \in 1..Len(x) : x[i] < y[i] /\ \A j \in (i + 1)..Len(x) : x[j] = y[j]

\* x * k for k <= LimbBase: the low digits of the products and their high
\* digits one place up
BigScale(x, k) ==
  BigAdd([i \in 1..Len(x) |-> (x[i] * k) % LimbBase],
         [i \in 1..(Len(x) + 1) |-> IF i = 1 THEN 0 ELSE (x[i - 1] * k) \div LimbBase])

RECURSIVE BigMulFrom(_, _, _, _)
\* x times the digits of y at the places from to upto: the sum of the two
\* halves of the places
BigMulFrom(x, y, from, upto) ==
  IF from > upto THEN <<>>
  ELSE IF from = upto THEN Zeros(from - 1) \o BigScale(x, y[from])
  ELSE BigAdd(BigMulFrom(x, y, from, (from + upto) \div 2),
              BigMulFrom(x, y, ((from + upto) \div 2) + 1, upto))

BigMul(x, y) == BigMulFrom(x, y, 1, Len(y))

\* x * 2^cnt for cnt < LimbBits: no place takes a carry
BigShiftBits(x, cnt) ==
  BigTrim([i \in 1..(Len(x) + 1) |->
             ((DigitAt(x, i) * (2 ^ cnt)) % LimbBase)
               + ((DigitAt(x, i - 1) * (2 ^ cnt)) \div LimbBase)])

\* x * 2^cnt
BigShiftLeft(x, cnt) ==
  IF Len(x) = 0 THEN x
  ELSE Zeros(cnt \div LimbBits) \o BigShiftBits(x, cnt % LimbBits)

RECURSIVE RemainderAbove(_, _, _)
\* the remainder of the places of x above place i by the natural n below
\* LimbBase
RemainderAbove(x, n, i) ==
  IF i >= Len(x) THEN 0 ELSE ((RemainderAbove(x, n, i + 1) * LimbBase) + x[i + 1]) % n

\* the quotient of x by the natural n below LimbBase, and the remainder
SmallDivision(x, n) ==
  [digits |-> [i \in 1..Len(x) |-> ((RemainderAbove(x, n, i) * LimbBase) + x[i]) \div n],
   rem |-> RemainderAbove(x, n, 0)]

\* the natural part of x / 2^cnt for cnt < LimbBits
BigDropBits(x, cnt) ==
  BigTrim([i \in 1..Len(x) |->
             (x[i] \div (2 ^ cnt)) + ((DigitAt(x, i + 1) % (2 ^ cnt)) * (2 ^ (LimbBits - cnt)))])

\* the natural part of x / 2^cnt
BigShiftRight(x, cnt) ==
  IF cnt \div LimbBits >= Len(x) THEN <<>>
  ELSE BigDropBits(SubSeq(x, (cnt \div LimbBits) + 1, Len(x)), cnt % LimbBits)

RECURSIVE BitLength(_)
\* the number of binary digits of the natural i
BitLength(i) == IF i = 0 THEN 0 ELSE 1 + BitLength(i \div 2)

BigBits(x) == IF Len(x) = 0 THEN 0 ELSE (LimbBits * (Len(x) - 1)) + BitLength(x[Len(x)])

RECURSIVE TrailingZeros(_)
\* the number of binary zeros at the end of i > 0
TrailingZeros(i) == IF i % 2 = 1 THEN 0 ELSE 1 + TrailingZeros(i \div 2)

\* the lowest place of x > 0 with a digit other than zero
FirstUsed(x) == CHOOSE i \in 1..Len(x) : x[i] # 0 /\ \A j \in 1..(i - 1) : x[j] = 0

BigTrailingZeros(x) == (LimbBits * (FirstUsed(x) - 1)) + TrailingZeros(x[FirstUsed(x)])

IsOdd(x) == Len(x) > 0 /\ x[1] % 2 = 1

\* binary digit pos (from 0) of x
BitAt(x, pos) == (DigitAt(x, (pos \div LimbBits) + 1) \div (2 ^ (pos % LimbBits))) % 2

\* the last drop binary digits of x > 0 (and, when sticky, a fraction below
\* them) are above half of 2^drop, or are half of it with the digit before
\* them odd
RoundsUp(x, sticky, drop) ==
  /\ BitAt(x, drop - 1) = 1
  /\ sticky \/ BigTrailingZeros(x) < drop - 1 \/ BitAt(x, drop) = 1

\* x (and, when sticky, a fraction below it) without its last drop binary
\* digits, rounded on them to nearest, ties to even
RoundOff(x, sticky, drop) ==
  IF drop = 0 THEN x
  ELSE IF RoundsUp(x, sticky, drop) THEN BigAdd(BigShiftRight(x, drop), <<1>>)
  ELSE BigShiftRight(x, drop)

\* the number of binary digits of x * 2^e that a double cannot hold
DroppedBits(x, e) == Max2(Max2(BigBits(x) - SignificandBits, MinExponent - e), 0)

\* the finite number sig * 2^e for the odd natural sig, in its one form
Packed(neg, sig, e) ==
  IF /\ Len(sig) = 1
     /\ e >= -LimbBits
     /\ e < LimbBits
     /\ (e <= 0 \/ sig[1] * (2 ^ e) < LimbBase)
  THEN [k |-> "fin", n |-> (IF neg THEN -1 ELSE 1) * sig[1] * (2 ^ Max2(e, 0)),
        d |-> 2 ^ Max2(-e, 0)]
  ELSE [k |-> "fin", neg |-> neg, sig |-> sig, exp |-> e]

\* the number x * 2^e for a natural x that a double can hold
Canonical(neg, x, e) ==
  IF Len(x) = 0 THEN SignedZero(neg)
  ELSE IF e + BigBits(x) > MaxExponent THEN SignedInfinity(neg)
  ELSE Packed(neg, BigShiftRight(x, BigTrailingZeros(x)), e + BigTrailingZeros(x))

\* the double nearest to (x and, when sticky, a fraction below it) * 2^e,
\* ties to even; with sticky, x has more than SignificandBits + 1 digits
Rounded(neg, x, e, sticky) ==
  Canonical(neg, RoundOff(x, sticky, DroppedBits(x, e)), e + DroppedBits(x, e))

RECURSIVE Log2(_)
\* the e with 2^e <= d < 2^(e + 1), for d >= 1
Log2(d) == IF d <= 1 THEN 0 ELSE 1 + Log2(d \div 2)

IsPowerOfTwo(d) == d = 2 ^ Log2(d)

\* num / den for num # 0, in lowest terms when divided through by g, its
\* denominator then a power of two
ShortOrLong(num, den, g) ==
  IF Abs(num) \div g < LimbBase /\ den \div g <= LimbBase
  THEN [k |-> "fin", n |-> num \div g, d |-> den \div g]
  ELSE Rounded(num < 0, BigOfInt(Abs(num) \div g), -Log2(den \div g), FALSE)

\* the double num / den for integers whose quotient has a power of two as
\* its denominator
Dyadic(num, den) ==
  IF num = 0 THEN PositiveZero ELSE ShortOrLong(num, den, GCD(Abs(num), den))

\* the integer i
NumInt(i) == Dyadic(i, 1)

\* the sign, a natural and the exponent of a finite number other than zero
Parts(a) ==
  IF IsShort(a) THEN [neg |-> a.n < 0, sig |-> <<Abs(a.n)>>, exp |-> -Log2(a.d)]
  ELSE [neg |-> a.neg, sig |-> a.sig, exp |-> a.exp]

\* the parts p are below 2^Top(p)
Top(p) == p.exp + BigBits(p.sig)

\* a === b
NumEquals(a, b) ==
  /\ ~IsNaN(a)
  /\ ~IsNaN(b)
  /\ a = b \/ (NumIsZero(a) /\ NumIsZero(b))

\* the sum of x * 2^e and y * 2^e with their signs
AlignedSum(neg1, x, neg2, y, e) ==
  IF neg1 = neg2 THEN Rounded(neg1, BigAdd(x, y), e, FALSE)
  ELSE IF x = y THEN PositiveZero
  ELSE IF BigLess(x, y) THEN Rounded(neg2, BigSub(y, x), e, FALSE)
  ELSE Rounded(neg1, BigSub(x, y), e, FALSE)

\* a + b for the parts p of a and q of b; an operand more than 64 binary
\* places below the other leaves it as it is
PartsSum(a, b, p, q) ==
  IF Top(p) - Top(q) > 64 THEN a
  ELSE IF Top(q) - Top(p) > 64 THEN b
  ELSE AlignedSum(p.neg, BigShiftLeft(p.sig, p.exp - Min2(p.exp, q.exp)),
                  q.neg, BigShiftLeft(q.sig, q.exp - Min2(p.exp, q.exp)),
                  Min2(p.exp, q.exp))

\* a + b; the sum of two zeros is -0 only when both are -0
NumAdd(a, b) ==
  IF IsNaN(a) \/ IsNaN(b) THEN NaN
  ELSE IF ~IsFinite(a) THEN (IF IsFinite(b) \/ a = b THEN a ELSE NaN)
  ELSE IF ~IsFinite(b) THEN b
  ELSE IF NumIsZero(a) THEN (IF NumIsZero(b) THEN SignedZero(SignBit(a) /\ SignBit(b)) ELSE b)
  ELSE IF NumIsZero(b) THEN a
  ELSE IF IsShort(a) /\ IsShort(b) THEN Dyadic((a.n * b.d) + (b.n * a.d), a.d * b.d)
  ELSE PartsSum(a, b, Parts(a), Parts(b))

\* -a
NumNeg(a) ==
  IF IsNaN(a) THEN NaN
  ELSE IF ~IsFinite(a) THEN SignedInfinity(a.n > 0)
  ELSE IF NumIsZero(a) THEN SignedZero(a.d > 0)
  ELSE IF IsShort(a) THEN [a EXCEPT !.n = -a.n]
  ELSE [a EXCEPT !.neg = ~a.neg]

\* a - b
NumSub(a, b) == NumAdd(a, NumNeg(b))

\* Math.abs(a)
NumAbs(a) == IF IsNaN(a) THEN NaN ELSE IF SignBit(a) THEN NumNeg(a) ELSE a

PartsProduct(negative, p, q) ==
  Rounded(negative, BigMul(p.sig, q.sig), p.exp + q.exp, FALSE)

\* a * b for numbers other than NaN, negative when their sign bits differ
Product(a, b, negative) ==
  IF NumIsZero(a) \/ NumIsZero(b)
  THEN (IF IsFinite(a) /\ IsFinite(b) THEN SignedZero(negative) ELSE NaN)
  ELSE IF ~(IsFinite(a) /\ IsFinite(b)) THEN SignedInfinity(negative)
  ELSE IF IsShort(a) /\ IsShort(b) THEN Dyadic(a.n * b.n, a.d * b.d)
  ELSE PartsProduct(negative, Parts(a), Parts(b))

\* a * b; a zero product has the sign of the two factors
NumMul(a, b) ==
  IF IsNaN(a) \/ IsNaN(b) THEN NaN ELSE Product(a, b, SignBit(a) # SignBit(b))

\* Math.pow(a, 2), taken as the double nearest to the square
NumSquare(a) == NumMul(a, a)

\* the binary digits that a quotient is carried to
QuotientBits == 56

\* an estimate of the greatest digit q with q * y <= r, from the two top
\* digits of r < LimbBase * y: it is q, q + 1 or q + 2 when the top digit of
\* y is LimbBase / 2 or more
DigitEstimate(r, y) ==
  Min2(((DigitAt(r, Len(y) + 1) * LimbBase) + DigitAt(r, Len(y))) \div y[Len(y)],
       LimbBase - 1)

QuotientDigit(r, y, estimate) ==
  CHOOSE q \in Max2(estimate - 2, 0)..estimate :
    ~BigLess(r, BigScale(y, q)) /\ BigLess(r, BigScale(y, q + 1))

\* the digit q of r / y and the remainder
DivisionStep(r, y) ==
  Only({ [q |-> q, rem |-> BigSub(r, BigScale(y, q))] :
         q \in {QuotientDigit(r, y, DigitEstimate(r, y))} })

\* the remainder r with the digit of place i of x brought down
BroughtDown(x, i, r) == IF i = 0 THEN r ELSE BigTrim(<<x[i]>> \o r)

RECURSIVE BigLongDivFrom(_, _, _, _, _)
\* digits, the digits of the quotient of x by the natural y from place i + 1
\* up, with the digits of the places 1..i: r is the remainder of the places
\* above place i with the digit of place i brought down
BigLongDivFrom(x, y, i, r, digits) ==
  IF i = 0 THEN [digits |-> digits, rem |-> r]
  ELSE Only({ BigLongDivFrom(x, y, i - 1, BroughtDown(x, i - 1, step.rem),
                             <<step.q>> \o digits) :
              step \in {DivisionStep(r, y)} })

\* the places of x from place i up
PlacesFrom(x, i) == SubSeq(x, i, Len(x))

\* x / y for y with its top digit LimbBase / 2 or more: the places of x
\* above the first Len(x) - Len(y) + 1 are below y
LongDivision(x, y) ==
  IF Len(x) < Len(y) THEN [digits |-> <<>>, rem |-> x]
  ELSE BigLongDivFrom(x, y, (Len(x) - Len(y)) + 1,
                      BigTrim(PlacesFrom(x, (Len(x) - Len(y)) + 1)), <<>>)

\* the binary places that bring the top digit of y to LimbBase / 2 or more
TopShift(y) == (LimbBits - (BigBits(y) % LimbBits)) % LimbBits

\* the natural part of x / y for y > 0
BigDiv(x, y) ==
  BigTrim(LongDivision(BigShiftLeft(x, TopShift(y)), BigShiftLeft(y, TopShift(y))).digits)

\* the double nearest to the quotient r.quot (and a fraction when a
\* remainder is left) * 2^e
RoundedQuotient(negative, r, e) == Rounded(negative, r.quot, e, Len(r.rem) > 0)

\* the places that give the quotient of naturals of bx and by binary digits
\* more than QuotientBits binary digits
QuotientPlaces(bx, by) ==
  Max2((((by + QuotientBits + 1) - bx) + (LimbBits - 1)) \div LimbBits, 0)

LongQuotientOf(r) == [quot |-> BigTrim(r.digits), rem |-> r.rem]

ShiftedQuotient(negative, x, y, e, places) ==
  Only({ RoundedQuotient(negative, LongQuotientOf(r), e - (places * LimbBits)) :
         r \in {LongDivision(BigShiftLeft(x, (places * LimbBits) + TopShift(y)),
                             BigShiftLeft(y, TopShift(y)))} })

\* x / y * 2^e for naturals x and y of bx and by binary digits
LongQuotient(negative, x, y, e, bx, by) ==
  ShiftedQuotient(negative, x, y, e, QuotientPlaces(bx, by))

\* the quotient and the remainder of x by the natural n below LimbBase
SmallQuotient(r) == [quot |-> BigTrim(r.digits), rem |-> BigOfInt(r.rem)]

PartsQuotient(negative, p, q) ==
  IF Len(q.sig) = 1
  THEN RoundedQuotient(negative,
         SmallQuotient(SmallDivision(BigShiftLeft(p.sig, 5 * LimbBits), q.sig[1])),
         (p.exp - q.exp) - (5 * LimbBits))
  ELSE LongQuotient(negative, p.sig, q.sig, p.exp - q.exp, BigBits(p.sig), BigBits(q.sig))

\* a / b for numbers other than NaN, negative when their sign bits differ
Quotient(a, b, negative) ==
  IF IsFinite(a) /\ IsFinite(b)
  THEN IF NumIsZero(b)
       THEN (IF NumIsZero(a) THEN NaN ELSE SignedInfinity(negative))
       ELSE IF NumIsZero(a) THEN SignedZero(negative)
       ELSE IF IsShort(a) /\ IsShort(b) /\ IsPowerOfTwo(Abs(b.n) \div GCD(Abs(a.n), Abs(b.n)))
       THEN Dyadic((IF b.n < 0 THEN -1 ELSE 1) * a.n * b.d, a.d * Abs(b.n))
       ELSE PartsQuotient(negative, Parts(a), Parts(b))
  ELSE IF IsFinite(a) THEN SignedZero(negative)
  ELSE IF IsFinite(b) THEN SignedInfinity(negative)
  ELSE NaN

\* a / b; a zero quotient and a quotient by zero have the sign of the
\* two operands
NumDiv(a, b) ==
  IF IsNaN(a) \/ IsNaN(b) THEN NaN ELSE Quotient(a, b, SignBit(a) # SignBit(b))

\* the number written n / d in the source, for integers n and d
Fin(n, d) == NumDiv(NumInt(n), NumInt(d))

\* |p| < |q| for the parts of two finite numbers other than zero
MagLess(p, q) ==
  IF Top(p) # Top(q) THEN Top(p) < Top(q)
  ELSE BigLess(BigShiftLeft(p.sig, p.exp - Min2(p.exp, q.exp)),
               BigShiftLeft(q.sig, q.exp - Min2(p.exp, q.exp)))

\* a < b for two finite numbers, one of them in the long form
LongLess(a, b) ==
  IF NumIsZero(a) THEN ~SignBit(b)
  ELSE IF NumIsZero(b) THEN SignBit(a)
  ELSE IF SignBit(a) # SignBit(b) THEN SignBit(a)
  ELSE IF SignBit(a) THEN MagLess(Parts(b), Parts(a))
  ELSE MagLess(Parts(a), Parts(b))

\* a < b
NumLess(a, b) ==
  IF IsNaN(a) \/ IsNaN(b) THEN FALSE
  ELSE IF ~IsFinite(a) THEN a.n < 0 /\ a # b
  ELSE IF ~IsFinite(b) THEN b.n > 0
  ELSE IF IsShort(a) /\ IsShort(b) THEN (a.n * Abs(b.d)) < (b.n * Abs(a.d))
  ELSE LongLess(a, b)

RECURSIVE IntSqrtFrom(_, _, _)
\* the natural part of the square root of i < 2^30: root with the binary
\* digits from bit down still to settle
IntSqrtFrom(i, root, bit) ==
  IF bit = 0 THEN root
  ELSE IF (root + bit) * (root + bit) <= i THEN IntSqrtFrom(i, root + bit, bit \div 2)
  ELSE IntSqrtFrom(i, root, bit \div 2)

ISqrt(i) == IntSqrtFrom(i, 0, 2 ^ (LimbBits - 1))

IsSquare(i) == ISqrt(i) * ISqrt(i) = i

\* the natural x < 2^30 as an integer
IntOfBig(x) == DigitAt(x, 1) + (DigitAt(x, 2) * LimbBase)

\* an even number of low binary digits of x that leaves 30 digits or fewer
LowPairs(x) == 2 * ((Max2(BigBits(x) - (2 * LimbBits), 0) + 1) \div 2)

\* a natural above the square root of x, from the top digits of x
SqrtAbove(x) ==
  BigShiftLeft(BigOfInt(ISqrt(IntOfBig(BigShiftRight(x, LowPairs(x)))) + 1),
               LowPairs(x) \div 2)

\* the natural part of (s + x / s) / 2
SqrtCloser(x, s) == Only({ BigShiftRight(BigAdd(s, q), 1) : q \in {BigDiv(x, s)} })

RECURSIVE SqrtFrom(_, _, _)
\* the natural part of the square root of x, from s above it or equal to
\* it and t closer to it
SqrtFrom(x, s, t) ==
  IF BigLess(t, s) THEN Only({ SqrtFrom(x, t, u) : u \in {SqrtCloser(x, t)} }) ELSE s

WithRemainder(x, root) == [quot |-> root, rem |-> BigSub(x, BigMul(root, root))]

\* the natural part of the square root of x > 0, and the remainder
BigSqrt(x) == WithRemainder(x, SqrtFrom(x, SqrtAbove(x), SqrtCloser(x, SqrtAbove(x))))

\* the shift that gives sig * 2^shift twice QuotientBits - 1 binary digits
\* or more and leaves e - shift even
SqrtShift(bits, e) ==
  Max2((2 * (QuotientBits - 1)) - bits, 0)
    + ((e - Max2((2 * (QuotientBits - 1)) - bits, 0)) % 2)

\* the square root of sig * 2^e, with sig shifted by shift
ShiftedSqrt(sig, e, shift) ==
  Only({ RoundedQuotient(FALSE, r, (e - shift) \div 2) :
         r \in {BigSqrt(BigShiftLeft(sig, shift))} })

PartsSqrt(p) == ShiftedSqrt(p.sig, p.exp, SqrtShift(BigBits(p.sig), p.exp))

\* Math.sqrt(a); Math.sqrt(-0) is -0
NumSqrt(a) ==
  IF IsNaN(a) THEN NaN
  ELSE IF NumIsZero(a) THEN a
  ELSE IF SignBit(a) THEN NaN
  ELSE IF ~IsFinite(a) THEN Infinity
  ELSE IF IsShort(a) /\ IsSquare(a.n) /\ IsSquare(a.d)
  THEN [k |-> "fin", n |-> ISqrt(a.n), d |-> ISqrt(a.d)]
  ELSE PartsSqrt(Parts(a))

RECURSIVE NumSum(_)
\* s.reduce((a, b) => a + b, 0)
NumSum(s) == IF Len(s) = 0 THEN NumInt(0) ELSE NumAdd(NumSum(SubSeq(s, 1, Len(s) - 1)), s[Len(s)])

\* arr[i] used in arithmetic: undefined becomes NaN
ElementOrNaN(arr, i) == IF i \in 1..Len(arr) THEN arr[i] ELSE NaN

NumMatrix(M) ==
  AsArray([r \in 1..Len(M) |-> AsArray([c \in 1..Len(M[r]) |-> NumInt(M[r][c])])])

(***************************************************************************)
(* The scaler classes.  A scaler object is a record of its fields, each    *)
(* None (null) or Some(array).                                             *)
(***************************************************************************)
\* new StandardScaler()
NewStandardScaler == [kind |-> "StandardScaler", mean |-> None, std |-> None]

\* new MinMaxScaler()
NewMinMaxScaler ==
  [kind |-> "MinMaxScaler", min |-> None, max |-> None, scale |-> None,
   minScale |-> None]

Column(data, c) == AsArray([r \in 1..Len(data) |-> data[r][c]])

\* math.matrix(data) throws a DimensionError when the rows differ in length
IsRagged(data) == \E r \in 1..Len(data) : Len(data[r]) # Len(data[1])

RECURSIVE SumFromFirst(_, _)
\* the rows 1..i of a column reduced with add, from the first row on
SumFromFirst(col, i) ==
  IF i = 1 THEN col[1] ELSE NumAdd(SumFromFirst(col, i - 1), col[i])

\* math.mean(matrix, 0) of one column: the rows reduced with add, over
\* their number
ColumnMean(col) == NumDiv(SumFromFirst(col, Len(col)), NumInt(Len(col)))

\* the mean of the squares of val - meanVal over one column
VarianceAbout(col, meanVal) ==
  NumDiv(NumSum(AsArray([r \in 1..Len(col) |-> NumSquare(NumSub(col[r], meanVal))])),
         NumInt(Len(col)))

\* the variance of one column as StandardScaler.fit accumulates it
ColumnVariance(col) == VarianceAbout(col, ColumnMean(col))

\* a zero standard deviation becomes 1
NonZeroStd(sd) == IF NumEquals(sd, NumInt(0)) THEN NumInt(1) ELSE sd

\* this.std[col] of StandardScaler.fit
ColumnStd(col) == NonZeroStd(NumSqrt(ColumnVariance(col)))

\* the tolerances of the comparisons of mathjs: relTol = 1e-12 and
\* absTol = 1e-15
RelTol == NumDiv(NumInt(1), NumMul(NumInt(10 ^ 6), NumInt(10 ^ 6)))

AbsTol == NumDiv(NumInt(1), NumMul(NumInt(10 ^ 9), NumInt(10 ^ 6)))

\* Math.max(a, b) for two finite numbers
NumMax(a, b) == IF NumLess(a, b) THEN b ELSE a

\* nearlyEqual(a, b, relTol, absTol) of mathjs
NearlyEqual(a, b) ==
  IF IsNaN(a) \/ IsNaN(b) THEN FALSE
  ELSE IF ~IsFinite(a) \/ ~IsFinite(b) THEN a = b
  ELSE IF NumEquals(a, b) THEN TRUE
  ELSE ~NumLess(NumMax(NumMul(RelTol, NumMax(NumAbs(a), NumAbs(b))), AbsTol),
                NumAbs(NumSub(a, b)))

\* smaller(x, y) and larger(x, y) of mathjs
Smaller(x, y) == NumLess(x, y) /\ ~NearlyEqual(x, y)

Larger(x, y) == NumLess(y, x) /\ ~NearlyEqual(x, y)

\* smaller(x, y) ? x : y and larger(x, y) ? x : y
SmallerOf(x, y) == IF Smaller(x, y) THEN x ELSE y

LargerOf(x, y) == IF Larger(x, y) THEN x ELSE y

RECURSIVE MinFromFirst(_, _)
\* the rows 1..i of a column reduced with SmallerOf, from the first row on
MinFromFirst(col, i) ==
  IF i = 1 THEN col[1] ELSE SmallerOf(MinFromFirst(col, i - 1), col[i])

RECURSIVE MaxFromFirst(_, _)
\* the rows 1..i of a column reduced with LargerOf, from the first row on
MaxFromFirst(col, i) ==
  IF i = 1 THEN col[1] ELSE LargerOf(MaxFromFirst(col, i - 1), col[i])

\* math.min(matrix, 0) and math.max(matrix, 0) of one column
ColumnMin(col) == MinFromFirst(col, Len(col))

ColumnMax(col) == MaxFromFirst(col, Len(col))

Returned(obj, value) ==
  [obj |-> obj, outcome |-> "returned", error |-> "", value |-> value]

Threw(obj, error) ==
  [obj |-> obj, outcome |-> "threw", error |-> error, value |-> None]

\* StandardScaler.fit(data).  On an empty matrix math.mean(matrix, 0) gives
\* an empty array, which is stored before data[0].length throws.
StandardScalerFit(s, data) ==
  IF IsRagged(data) THEN Threw(s, "DimensionError")
  ELSE IF Len(data) = 0 THEN Threw([s EXCEPT !.mean = Some(<<>>)], "TypeError")
  ELSE LET numCols == Len(data[1])
           mean == AsArray([c \in 1..numCols |-> ColumnMean(Column(data, c))])
           std == AsArray([c \in 1..numCols |-> ColumnStd(Column(data, c))])
       IN  Returned([s EXCEPT !.mean = Some(mean), !.std = Some(std)], None)

\* MinMaxScaler.fit(data).  On an empty matrix math.min(matrix, 0) and
\* math.max(matrix, 0) give empty arrays and fit returns.
MinMaxScalerFit(s, data) ==
  IF IsRagged(data) THEN Threw(s, "DimensionError")
  ELSE LET numCols == IF Len(data) = 0 THEN 0 ELSE Len(data[1])
           min == AsArray([c \in 1..numCols |-> ColumnMin(Column(data, c))])
           max == AsArray([c \in 1..numCols |-> ColumnMax(Column(data, c))])
           scale == AsArray([c \in 1..numCols |-> NumSub(max[c], min[c])])
       IN  Returned([s EXCEPT !.min = Some(min), !.max = Some(max),
                              !.scale = Some(scale), !.minScale = Some(min)], None)

ScalerFit(s, data) ==
  IF s.kind = "StandardScaler" THEN StandardScalerFit(s, data)
  ELSE MinMaxScalerFit(s, data)

\* the guard of transform, inverseTransform and inverseTransformSingle
ScalerNotFitted(s) ==
  IF s.kind = "StandardScaler" THEN s.mean = None \/ s.std = None
  ELSE s.scale = None

\* the offset and the factor of the two scalers
ScalerOffset(s) == IF s.kind = "StandardScaler" THEN s.mean[1] ELSE s.minScale[1]

ScalerFactor(s) == IF s.kind = "StandardScaler" THEN s.std[1] ELSE s.scale[1]

\* transform(data) of a scaler that fits itself on the matrix it is given
ScalerTransformRefitting(s, data) ==
  IF ScalerNotFitted(s) THEN Threw(s, "Scaler not fitted")
  ELSE LET refit == ScalerFit(s, data).obj
       IN  Returned(refit,
             Some(AsArray([r \in 1..Len(data) |->
               AsArray([i \in 1..Len(data[r]) |->
                 NumDiv(NumSub(data[r][i], ElementOrNaN(ScalerOffset(refit), i)),
                        ElementOrNaN(ScalerFactor(refit), i))])])))

\* transform(data): (val - offset[i]) / factor[i]
ScalerTransform(s, data) ==
  IF ScalerNotFitted(s) THEN Threw(s, "Scaler not fitted")
  ELSE Returned(s,
         Some(AsArray([r \in 1..Len(data) |->
           AsArray([i \in 1..Len(data[r]) |->
             NumDiv(NumSub(data[r][i], ElementOrNaN(ScalerOffset(s), i)),
                    ElementOrNaN(ScalerFactor(s), i))])])))

\* inverseTransform(data): val * factor[i] + offset[i]
ScalerInverseTransform(s, data) ==
  IF ScalerNotFitted(s) THEN Threw(s, "Scaler not fitted")
  ELSE Returned(s,
         Some(AsArray([r \in 1..Len(data) |->
           AsArray([i \in 1..Len(data[r]) |->
             NumAdd(NumMul(data[r][i], ElementOrNaN(ScalerFactor(s), i)),
                    ElementOrNaN(ScalerOffset(s), i))])])))

(***************************************************************************)
(* Specification of the scalers: fit, transform and inverseTransform on    *)
(* one scaler object; inverseTransform is applied to a matrix of the       *)
(* caller or to the result of the transform call before it.                *)
(***************************************************************************)
MaxRows == 2

ScalerVals == {1, 2}

ColumnCounts == {1, 2}

RectangularMatrices(rows, vals) ==
  UNION { [1..r -> [1..c -> vals]] : r \in rows, c \in ColumnCounts }

\* one column that holds 0.1 in every row
TenthColumns == { [r \in 1..rows |-> <<Fin(1, 10)>>] : rows \in 1..(MaxRows + 1) }

\* the matrices handed to fit: the empty matrix, rectangular matrices,
\* columns of 0.1, and matrices with rows of different lengths
FitMatrices ==
  {<<>>}
    \cup { NumMatrix(M) : M \in RectangularMatrices(1..MaxRows, ScalerVals) }
    \cup TenthColumns
    \cup { NumMatrix(M) : M \in {<<<<1, 2>>, <<1>>>>, <<<<1>>, <<2, 2>>>>} }

\* the matrices handed to transform and inverseTransform
TransformMatrices ==
  { NumMatrix(M) : M \in RectangularMatrices({1}, {0, 1, 3}) }

ScalerCall(op, arg, origin, pre, r) ==
  [op |-> op, arg |-> arg, origin |-> origin, pre |-> pre,
   outcome |-> r.outcome, error |-> r.error, value |-> r.value]

InitScaler ==
  /\ scalerObj \in {NewStandardScaler, NewMinMaxScaler}
  /\ call = NoOperation
  /\ model = NoObject
  /\ fitCall = NoCall
  /\ fc = NoForecast
  /\ retStatic = NoForecast
  /\ retDynamic = NoForecast
  /\ varModel = NoObject
  /\ gom = NoObject
  /\ imported = NoObject

scalerRest == <<model, fitCall, fc, retStatic, retDynamic, varModel, gom, imported>>

\* scaler.fit(data)
FitScaler ==
  /\ \E data \in FitMatrices :
       \E r \in {ScalerFit(scalerObj, data)} :
         /\ scalerObj' = r.obj
         /\ call' = ScalerCall("fit", data, None, scalerObj, r)
  /\ UNCHANGED scalerRest

\* scaler.transform(M)
Transform ==
  /\ \E M \in TransformMatrices :
       \E r \in {ScalerTransform(scalerObj, M)} :
         /\ scalerObj' = r.obj
         /\ call' = ScalerCall("transform", M, None, scalerObj, r)
  /\ UNCHANGED scalerRest

\* scaler.inverseTransform(D) for a matrix of the caller
InverseTransform ==
  /\ \E D \in TransformMatrices :
       \E r \in {ScalerInverseTransform(scalerObj, D)} :
         /\ scalerObj' = r.obj
         /\ call' = ScalerCall("inverseTransform", D, None, scalerObj, r)
  /\ UNCHANGED scalerRest

\* scaler.inverseTransform(scaler.transform(M)): the second call of the pair
InverseOfTransformed ==
  /\ call.op = "transform"
  /\ call.outcome = "returned"
  /\ \E r \in {ScalerInverseTransform(scalerObj, call.value[1])} :
       /\ scalerObj' = r.obj
       /\ call' = ScalerCall("inverseTransform", call.value[1], Some(call.arg),
                             scalerObj, r)
  /\ UNCHANGED scalerRest

NextScaler == FitScaler \/ Transform \/ InverseTransform \/ InverseOfTransformed

SpecScaler == InitScaler /\ [][NextScaler]_vars

(***************************************************************************)
(* Properties of the scalers.                                              *)
(***************************************************************************)
\* the scaler holds the parameters of a fit on a matrix with numCols >= 1
\* columns
FittedWithColumns(s, numCols) ==
  /\ numCols >= 1
  /\ ~ScalerNotFitted(s)
  /\ Len(ScalerOffset(s)) = numCols
  /\ Len(ScalerFactor(s)) = numCols

\* the call is inverseTransform(transform(M)) on a scaler fitted with as many
\* columns as M has
IsRoundTrip ==
  /\ call.op = "inverseTransform"
  /\ call.origin # None
  /\ FittedWithColumns(scalerObj, Len(call.origin[1][1]))

\* C11: for either scaler fitted on a non-empty rectangular matrix,
\* inverseTransform(transform(M)) equals M for every M with as many columns
C11_RoundTrip ==
  IsRoundTrip => (call.outcome = "returned" /\ call.value = call.origin)

\* the round trip of a StandardScaler gives M back
StandardRoundTrip ==
  (IsRoundTrip /\ scalerObj.kind = "StandardScaler")
    => (call.outcome = "returned" /\ call.value = call.origin)

IsConstant(col) == \A r \in 1..Len(col) : col[r] = col[1]

\* Number.isInteger(a)
IsInteger(a) == IsFinite(a) /\ (IF IsShort(a) THEN Abs(a.d) = 1 ELSE a.exp >= 0)

\* after StandardScaler.fit every std[i] is positive
StdAlwaysPositive ==
  (scalerObj.kind = "StandardScaler" /\ scalerObj.std # None) =>
    \A i \in 1..Len(scalerObj.std[1]) : NumLess(NumInt(0), scalerObj.std[1][i])

\* C12: after StandardScaler.fit every std[i] is positive, a constant column
\* has std 1, and transform maps a constant column to x - mean
C12_StdPositive ==
  /\ StdAlwaysPositive
  /\ (scalerObj.kind = "StandardScaler" /\ call.op = "fit"
        /\ call.outcome = "returned") =>
       \A i \in 1..Len(call.arg[1]) :
         IsConstant(Column(call.arg, i)) =>
           /\ scalerObj.std[1][i] = NumInt(1)
           /\ \A M \in TransformMatrices :
                Len(M[1]) = Len(call.arg[1]) =>
                  \A r \in 1..Len(M) :
                    ScalerTransform(scalerObj, M).value[1][r][i]
                      = NumSub(M[r][i], scalerObj.mean[1][i])

\* a constant column of integers has std 1
IntegerConstantHasStdOne ==
  (scalerObj.kind = "StandardScaler" /\ call.op = "fit"
     /\ call.outcome = "returned") =>
    \A i \in 1..Len(call.arg[1]) :
      (IsConstant(Column(call.arg, i)) /\ IsInteger(call.arg[1][i]))
        => scalerObj.std[1][i] = NumInt(1)

\* fit on a matrix whose rows differ in length throws and changes nothing
RaggedFitRejected ==
  (call.op = "fit" /\ IsRagged(call.arg))
    => (call.outcome = "threw" /\ scalerObj = call.pre)

\* C14: fit of either scaler throws when data is empty or its rows differ in
\* length, and the scaler's parameters are then as they were before the call
C14_FitRejectsInvalid ==
  (call.op = "fit" /\ (Len(call.arg) = 0 \/ IsRagged(call.arg)))
    => (call.outcome = "threw" /\ scalerObj = call.pre)

(***************************************************************************)
(* The single-step entry points of SARIMAX: apply(...).getPrediction(),    *)
(* predictNext and summary, on a model whose coefficients are integers.    *)
(***************************************************************************)
\* model.apply(endogData, exogData).getPrediction().predicted_mean[0];
\* spreading an undefined last row throws a TypeError and math.dot throws a
\* RangeError for vectors of different lengths
GetPrediction(m, endogData, exogData) ==
  IF ~m.trained THEN Threw(m, "Model not trained")
  ELSE IF Len(exogData) = 0 THEN Threw(m, "TypeError")
  ELSE LET input == PredictionInput(m, endogData, exogData)
       IN  IF Len(input) # Len(m.coefficients) \/ Len(input) = 0
           THEN Threw(m, "RangeError")
           ELSE Returned(m, Some(Dot(input, m.coefficients)))

\* model.predictNext(lastEndog, nextExog)
PredictNext(m, lastEndog, nextExog) ==
  IF ~m.trained THEN Threw(m, "Model not trained")
  ELSE IF Len(lastEndog) # m.order \/ Len(nextExog) # Len(m.exog[1])
       THEN Threw(m, "Mismatch in input dimensions")
       ELSE LET input == nextExog \o lastEndog
            IN  IF Len(input) # Len(m.coefficients)
                THEN Threw(m, "RangeError")
                ELSE Returned(m, Some(Dot(input, m.coefficients)))

\* model.summary(): the string "Model not trained." before fit, the fitted
\* fields after it
Summary(m) ==
  IF ~m.trained THEN Returned(m, Some("Model not trained."))
  ELSE Returned(m, Some("fitted fields"))

MaxWindow == 3

PredictVals == {1, 2}

\* the SARIMAX objects of this part: order, the training exog (one channel),
\* trained and the coefficients (empty before fit)
PredictModels ==
  { [order |-> p, exog |-> <<<<0>>, <<1>>, <<0>>, <<1>>>>, trained |-> FALSE,
     coefficients |-> <<>>] : p \in 1..MaxOrder }
    \cup UNION { { [order |-> p, exog |-> <<<<0>>, <<1>>, <<0>>, <<1>>>>,
                    trained |-> TRUE, coefficients |-> c] :
                    c \in CoefficientChoices(p) } : p \in 1..MaxOrder }

Vectors(maxLen) == UNION { [1..n -> PredictVals] : n \in 0..maxLen }

\* exogenous windows: no row, or rows of one or two values
ExogWindows ==
  {<<>>} \cup { <<v>> : v \in Vectors(2) \ {<<>>} }
         \cup { <<<<1>>, v>> : v \in Vectors(2) \ {<<>>} }

SarimaxCall(op, endogArg, exogArg, pre, r) ==
  [op |-> op, endog |-> endogArg, exog |-> exogArg, pre |-> pre,
   outcome |-> r.outcome, error |-> r.error, value |-> r.value]

InitPredict ==
  /\ model \in PredictModels
  /\ fitCall = NoCall
  /\ fc = NoForecast
  /\ retStatic = NoForecast
  /\ retDynamic = NoForecast
  /\ OthersAbsent

predictRest == <<fitCall, fc, retStatic, retDynamic, scalerObj, varModel, gom, imported>>

\* model.apply(endogData, exogData).getPrediction()
ApplyGetPrediction ==
  /\ \E endogData \in Vectors(MaxWindow), exogData \in ExogWindows :
       \E r \in {GetPrediction(model, endogData, exogData)} :
         /\ model' = r.obj
         /\ call' = SarimaxCall("getPrediction", endogData, exogData, model, r)
  /\ UNCHANGED predictRest

\* model.predictNext(lastEndog, nextExog)
PredictNextCall ==
  /\ \E lastEndog \in Vectors(MaxWindow), nextExog \in Vectors(2) :
       \E r \in {PredictNext(model, lastEndog, nextExog)} :
         /\ model' = r.obj
         /\ call' = SarimaxCall("predictNext", lastEndog, <<nextExog>>, model, r)
  /\ UNCHANGED predictRest

\* model.summary()
SummaryCall ==
  /\ \E r \in {Summary(model)} :
       /\ model' = r.obj
       /\ call' = SarimaxCall("summary", <<>>, <<>>, model, r)
  /\ UNCHANGED predictRest

NextPredict == ApplyGetPrediction \/ PredictNextCall \/ SummaryCall

SpecPredict == InitPredict /\ [][NextPredict]_vars

(***************************************************************************)
(* Properties of the operations that need a fitted object.                 *)
(***************************************************************************)
\* transform and inverseTransform of a scaler that was never fitted throw
\* "Scaler not fitted" and change nothing
UnfittedScalerRejected ==
  (call.op \in {"transform", "inverseTransform"}
     /\ call.pre \in {NewStandardScaler, NewMinMaxScaler})
    => (call.outcome = "threw" /\ call.error = "Scaler not fitted"
          /\ scalerObj = call.pre)

\* apply and predictNext of an untrained SARIMAX throw "Model not trained" and
\* change nothing
UntrainedPredictionRejected ==
  (call.op \in {"getPrediction", "predictNext"} /\ ~call.pre.trained)
    => (call.outcome = "threw" /\ call.error = "Model not trained"
          /\ model = call.pre)

\* C13: apply, predictNext and summary of a SARIMAX that was not fitted fail
\* with a not-fitted error and leave the object unchanged
C13_UntrainedRejected ==
  (call.op \in {"getPrediction", "predictNext", "summary"} /\ ~call.pre.trained)
    => (call.outcome = "threw" /\ call.error = "Model not trained"
          /\ model = call.pre)

\* the lagged values and the exogenous vector the call was given
LaggedGiven == call.endog

ExogGiven == IF Len(call.exog) = 0 THEN <<>> ELSE call.exog[Len(call.exog)]

ShapesMatch ==
  /\ Len(call.exog) > 0
  /\ Len(LaggedGiven) = call.pre.order
  /\ Len(ExogGiven) = Len(call.pre.exog[1])

\* predictNext throws "Mismatch in input dimensions" on a mismatch and
\* otherwise returns dot([exog..., laggedEndog...], coefficients)
PredictNextChecksShapes ==
  (call.op = "predictNext" /\ call.pre.trained) =>
    IF ShapesMatch
    THEN call.outcome = "returned"
           /\ call.value = Some(Dot(ExogGiven \o LaggedGiven, call.pre.coefficients))
    ELSE call.outcome = "threw" /\ call.error = "Mismatch in input dimensions"

\* C15: predictNext and apply(...).getPrediction() of a trained SARIMAX throw
\* when the number of lagged values differs from order or the exogenous
\* vector's length differs from the training column count, and otherwise
\* return dot([exog..., laggedEndog...], coefficients)
C15_DimensionsChecked ==
  (call.op \in {"predictNext", "getPrediction"} /\ call.pre.trained) =>
    IF ShapesMatch
    THEN call.outcome = "returned"
           /\ call.value = Some(Dot(ExogGiven \o LaggedGiven, call.pre.coefficients))
    ELSE call.outcome = "threw"

(***************************************************************************)
(* The evaluation metrics.  An index past the end of an array reads        *)
(* undefined, which is NaN in arithmetic.                                  *)
(***************************************************************************)
NumSeq(x) == AsArray([i \in 1..Len(x) |-> NumInt(x[i])])

\* errors.reduce((sum, err) => sum + err, 0) / errors.length
MeanOf(errors) == NumDiv(NumSum(errors), NumInt(Len(errors)))

\* MSE(yTrue, yPred)
MSE(yTrue, yPred) ==
  MeanOf(AsArray([i \in 1..Len(yTrue) |->
           NumSquare(NumSub(yTrue[i], ElementOrNaN(yPred, i)))]))

\* MAE(yTrue, yPred)
MAE(yTrue, yPred) ==
  MeanOf(AsArray([i \in 1..Len(yTrue) |->
           NumAbs(NumSub(yTrue[i], ElementOrNaN(yPred, i)))]))

MeanSquare(x) == MeanOf(AsArray([i \in 1..Len(x) |-> NumSquare(x[i])]))

\* UTheil(yTrue, yPred)
UTheil(yTrue, yPred) ==
  NumDiv(NumSqrt(MSE(yTrue, yPred)),
         NumAdd(NumSqrt(MeanSquare(yPred)), NumSqrt(MeanSquare(yTrue))))

\* n * sumAB - sumA * sumB
Centered(n, sumAB, sumA, sumB) == NumSub(NumMul(n, sumAB), NumMul(sumA, sumB))

\* sum of x[i] * y[i] over the indices of x
SumOfProducts(x, y) ==
  NumSum(AsArray([i \in 1..Len(x) |-> NumMul(x[i], ElementOrNaN(y, i))]))

\* numerator and the argument of Math.sqrt in calculateCorrelation(x, y)
CorrelationParts(x, y) ==
  [numerator |-> Centered(NumInt(Len(x)), SumOfProducts(x, y), NumSum(x), NumSum(y)),
   radicand |->
     NumMul(Centered(NumInt(Len(x)), SumOfProducts(x, x), NumSum(x), NumSum(x)),
            Centered(NumInt(Len(x)), SumOfProducts(y, y), NumSum(y), NumSum(y)))]

\* numerator / denominator unless the denominator is 0
GuardedRatio(numerator, denominator) ==
  IF NumEquals(denominator, NumInt(0)) THEN NumInt(0)
  ELSE NumDiv(numerator, denominator)

\* calculateCorrelation(x, y) of src/sarimax.js: 0 when the denominator is 0
GuardedCorrelation(parts) == GuardedRatio(parts.numerator, NumSqrt(parts.radicand))

calculateCorrelation(x, y) == GuardedCorrelation(CorrelationParts(x, y))

\* calculateCorrelation(x, y) of the analysis script: no test of the
\* denominator
UnguardedCorrelation(parts) == NumDiv(parts.numerator, NumSqrt(parts.radicand))

calculateCorrelationScript(x, y) == UnguardedCorrelation(CorrelationParts(x, y))

\* the values less their mean, the mean being the sum from 0 over the count
Deviations(values, mean) ==
  AsArray([i \in 1..Len(values) |-> NumSub(values[i], mean)])

\* sum of a[i] * b[i] over the indices of a; Math.pow(d, 2) is d * d rounded
SumOfDeviationProducts(a, b) ==
  NumSum(AsArray([i \in 1..Len(a) |-> NumMul(a[i], ElementOrNaN(b, i))]))

MetricsSums(devPred, devActual) ==
  [numerator |-> SumOfDeviationProducts(devPred, devActual),
   sqPred |-> SumOfDeviationProducts(devPred, devPred),
   sqActual |-> SumOfDeviationProducts(devActual, devActual)]

\* the sums of KfGom.calculateMetrics for one variable
MetricsParts(predictions, actuals) ==
  MetricsSums(Deviations(predictions, MeanOf(predictions)),
              Deviations(actuals, MeanOf(actuals)))

\* numerator / denom when denom > 0, else 0
PositiveRatio(numerator, denom) ==
  IF NumLess(NumInt(0), denom) THEN NumDiv(numerator, denom) ELSE NumInt(0)

MetricsRatio(parts) ==
  PositiveRatio(parts.numerator, NumMul(NumSqrt(parts.sqPred), NumSqrt(parts.sqActual)))

\* the correlation of KfGom.calculateMetrics for one variable: 0 unless the
\* product of the two denominators is positive
MetricsCorrelation(predictions, actuals) ==
  MetricsRatio(MetricsParts(predictions, actuals))

MaxSeq == 3

MetricVals == {1, 2}

MetricSeqs == UNION { [1..n -> MetricVals] : n \in 0..MaxSeq }

\* k tenths, n times: a constant column whose value is no dyadic number
Tenths(k, n) == AsArray([i \in 1..n |-> Fin(k, 10)])

\* 1, 2, ..., n
Ramp(n) == AsArray([i \in 1..n |-> NumInt(i)])

\* 0, 0, 1, 1, 2, 2, ...
Stairs(n) == AsArray([i \in 1..n |-> NumInt((i - 1) \div 2)])

\* pairs with a constant column of tenths, twice as long as the integer ones
TenthPairs ==
  { <<Tenths(3, 2 * MaxSeq), Ramp(2 * MaxSeq)>>,
    <<Stairs(2 * MaxSeq), Tenths(3, 2 * MaxSeq)>>,
    <<Tenths(1, 2 * MaxSeq), Stairs(2 * MaxSeq)>>,
    <<Tenths(1, 2 * MaxSeq), Tenths(1, 2 * MaxSeq)>>,
    <<Tenths(1, MaxSeq), Tenths(1, MaxSeq)>>,
    <<Tenths(1, MaxSeq), Tenths(3, MaxSeq - 1)>> }

MetricPairs ==
  { <<NumSeq(x), NumSeq(y)>> : x \in MetricSeqs, y \in MetricSeqs } \cup TenthPairs

MetricCall(op, value) ==
  [op |-> op, outcome |-> "returned", error |-> "", value |-> Some(value)]

\* the two sequences the metrics are applied to
InitMetrics ==
  /\ fc \in { [op |-> "metrics", x |-> pair[1], y |-> pair[2]] : pair \in MetricPairs }
  /\ call = NoOperation
  /\ model = NoObject
  /\ fitCall = NoCall
  /\ retStatic = NoForecast
  /\ retDynamic = NoForecast
  /\ scalerObj = NoObject
  /\ varModel = NoObject
  /\ gom = NoObject
  /\ imported = NoObject

metricsRest ==
  <<model, fitCall, fc, retStatic, retDynamic, scalerObj, varModel, gom, imported>>

MSECall ==
  /\ fc.op = "metrics"
  /\ call' = MetricCall("MSE", MSE(fc.x, fc.y))
  /\ UNCHANGED metricsRest

MAECall ==
  /\ fc.op = "metrics"
  /\ call' = MetricCall("MAE", MAE(fc.x, fc.y))
  /\ UNCHANGED metricsRest

UTheilCall ==
  /\ fc.op = "metrics"
  /\ call' = MetricCall("UTheil", UTheil(fc.x, fc.y))
  /\ UNCHANGED metricsRest

CorrelationCall ==
  /\ fc.op = "metrics"
  /\ call' = MetricCall("calculateCorrelation", calculateCorrelation(fc.x, fc.y))
  /\ UNCHANGED metricsRest

CorrelationScriptCall ==
  /\ fc.op = "metrics"
  /\ call' = MetricCall("calculateCorrelationScript",
                        calculateCorrelationScript(fc.x, fc.y))
  /\ UNCHANGED metricsRest

\* the correlation of calculateMetrics, whose two columns have equal length
MetricsCorrelationCall ==
  /\ fc.op = "metrics"
  /\ Len(fc.x) = Len(fc.y)
  /\ call' = MetricCall("metricsCorrelation", MetricsCorrelation(fc.x, fc.y))
  /\ UNCHANGED metricsRest

NextMetrics ==
  \/ MSECall
  \/ MAECall
  \/ UTheilCall
  \/ CorrelationCall
  \/ CorrelationScriptCall
  \/ MetricsCorrelationCall

SpecMetrics == InitMetrics /\ [][NextMetrics]_vars

(***************************************************************************)
(* Properties of the metrics.                                              *)
(***************************************************************************)
CorrelationOps ==
  {"calculateCorrelation", "calculateCorrelationScript", "metricsCorrelation"}

NonEmptyPair == Len(fc.x) >= 1 /\ Len(fc.x) = Len(fc.y)

\* v is 1 up to the rounding of a few operations
RoundsToOne(v) == IsFinite(v) /\ ~NumLess(RelTol, NumAbs(NumSub(v, NumInt(1))))

AllIntegers(x) == \A i \in 1..Len(x) : IsInteger(x[i])

\* MSE(x, x) is 0; calculateCorrelation of a non-constant x with itself is 1
\* in both versions; the correlation of calculateMetrics, which multiplies two
\* square roots, is 1 up to rounding (0.9999999999999998 for [1, 2])
IdentityMetrics ==
  /\ (call.op = "MSE" /\ NonEmptyPair /\ fc.x = fc.y) => call.value = Some(NumInt(0))
  /\ (call.op \in {"calculateCorrelation", "calculateCorrelationScript"}
        /\ NonEmptyPair /\ fc.x = fc.y /\ ~IsConstant(fc.x))
       => call.value = Some(NumInt(1))
  /\ (call.op = "metricsCorrelation" /\ NonEmptyPair /\ fc.x = fc.y
        /\ ~IsConstant(fc.x))
       => RoundsToOne(call.value[1])

\* the two routines that test their denominator return 0 for a constant input
\* of integers, whose sums are exact
GuardedCorrelationZero ==
  (call.op \in {"calculateCorrelation", "metricsCorrelation"} /\ NonEmptyPair
     /\ (IsConstant(fc.x) \/ IsConstant(fc.y))
     /\ AllIntegers(fc.x) /\ AllIntegers(fc.y))
    => call.value = Some(NumInt(0))

\* a constant input of tenths has sums that round: no routine returns 0 for
\* a constant column of 0.1 paired with itself
ConstantTenthsNotZero ==
  (call.op \in CorrelationOps /\ fc.x = fc.y /\ fc.x = Tenths(1, 2 * MaxSeq))
    => call.value # Some(NumInt(0))

\* C16: MSE(x, x) is 0 for non-empty x, correlation(x, x) is 1 for
\* non-constant x, and every correlation routine returns 0 when one of its
\* inputs is constant
C16_MetricIdentities ==
  /\ IdentityMetrics
  /\ (call.op \in CorrelationOps /\ NonEmptyPair
        /\ (IsConstant(fc.x) \/ IsConstant(fc.y)))
       => call.value = Some(NumInt(0))

\* C17: MSE, MAE, UTheil and calculateCorrelation throw when their two
\* sequences differ in length
C17_LengthChecked ==
  (call.op \in {"MSE", "MAE", "UTheil", "calculateCorrelation"}
     /\ Len(fc.x) # Len(fc.y))
    => call.outcome = "threw"

\* what the code does instead: a longer first sequence gives NaN, or 0 from
\* calculateCorrelation when its denominator, which pairs nothing, is 0
LongerFirstGivesNaN ==
  (call.op \in {"MSE", "MAE", "UTheil", "calculateCorrelation"}
     /\ Len(fc.x) > Len(fc.y))
    => \/ call.value = Some(NaN)
       \/ /\ call.op = "calculateCorrelation"
          /\ NumEquals(NumSqrt(CorrelationParts(fc.x, fc.y).radicand), NumInt(0))
          /\ call.value = Some(NumInt(0))

(***************************************************************************)
(* The p-value of a t statistic, in SARIMAX.fit and in                     *)
(* VARModel.calculateStatistics.  Probabilities and the arguments of the   *)
(* normal approximation are fixed-point numbers in millionths; t itself is *)
(* a JavaScript number.                                                    *)
(***************************************************************************)
Micro == 1000000

\* a * b for fixed-point a, b >= 0, by parts so that no product leaves the
\* 32-bit integers
FixMulPos(a, b) ==
  LET ah == a \div 1000
      al == a % 1000
      bh == b \div 1000
      bl == b % 1000
  IN  (ah * bh) + (((ah * bl) + (al * bh)) \div 1000) + ((al * bl) \div Micro)

FixMul(a, b) ==
  IF (a < 0) # (b < 0)
  THEN -FixMulPos(IF a < 0 THEN -a ELSE a, IF b < 0 THEN -b ELSE b)
  ELSE FixMulPos(IF a < 0 THEN -a ELSE a, IF b < 0 THEN -b ELSE b)

\* the next digits of r / d
RECURSIVE LongDivide(_, _, _)
LongDivide(r, d, digits) ==
  IF digits = 0 THEN 0
  ELSE (((r * 10) \div d) * (10 ^ (digits - 1))) + LongDivide((r * 10) % d, d, digits - 1)

\* 1.0 / d
FixReciprocal(d) ==
  (((1000 * Micro) \div d) * 1000) + LongDivide((1000 * Micro) % d, d, 3)

\* the coefficients a1..a5 and p of erfApprox
ErfA == <<254830, -284497, 1421414, -1453152, 1061405>>

ErfP == 327591

\* 1 / Math.sqrt(2)
InvSqrt2 == 707107

\* Math.exp(-x * x) at the arguments the t statistics below lead to
ExpNegSquare(x) ==
  CASE x = 0 -> 1000000
    [] x = 70710 -> 995013
    [] x = 707107 -> 606530
    [] x = 1060660 -> 324653
    [] x = 1131371 -> 278037
    [] x = 1414214 -> 135335
    [] x = 1767767 -> 43937
    [] x = 1838478 -> 34047
    [] x = 2121321 -> 11109
    [] x = 2333453 -> 4318
    [] x = 2828428 -> 335
    [] x = 2899138 -> 224
    [] x = 3535535 -> 4

\* erfApprox(x): sign * (1 - (((((a5 t + a4) t) + a3) t + a2) t + a1) t e^(-x^2))
\* with t = 1 / (1 + p |x|)
erfApprox(x) ==
  LET sign == IF x < 0 THEN -1 ELSE 1
      ax == IF x < 0 THEN -x ELSE x
      t == FixReciprocal(Micro + FixMul(ErfP, ax))
      poly == FixMul(FixMul(FixMul(FixMul(FixMul(ErfA[5], t) + ErfA[4], t)
                                     + ErfA[3], t) + ErfA[2], t) + ErfA[1], t)
  IN  sign * (Micro - FixMul(poly, ExpNegSquare(ax)))

\* normalCDF(x) = 0.5 * (1 + erfApprox(x / Math.sqrt(2)))
normalCDF(x) == (Micro + erfApprox(FixMul(x, InvSqrt2))) \div 2

\* the value returned without Math.max / Math.min
Unclamped(pValue) == pValue

\* Math.max(0.001, Math.min(0.999, pValue))
Clamp(pValue) ==
  LET upper == IF pValue > 999000 THEN 999000 ELSE pValue
  IN  IF upper < 1000 THEN 1000 ELSE upper

\* |t| to the nearest millionth, for a finite t below 1024
AbsMicro(t) ==
  IF IsShort(t) THEN (Abs(t.n) * Micro) \div Abs(t.d)
  ELSE IntOfBig(BigShiftRight(BigAdd(BigMul(t.sig, BigOfInt(Micro)),
                                     BigShiftLeft(<<1>>, (-t.exp) - 1)), -t.exp))

\* the table for small df
SmallDfPValue(absT) ==
  IF NumLess(NumInt(4), absT) THEN 1000
  ELSE IF NumLess(NumInt(3), absT) THEN 10000
  ELSE IF NumLess(Fin(5, 2), absT) THEN 20000
  ELSE IF NumLess(NumInt(2), absT) THEN 50000
  ELSE IF NumLess(Fin(3, 2), absT) THEN 100000
  ELSE 200000

\* the callback of tStats.map in SARIMAX.fit (lines 204-249), df = n - k
SarimaxPValue(t, df) ==
  LET absT == NumAbs(t)
  IN  IF ~IsFinite(absT) THEN 999000
      ELSE Clamp(IF df > 30 THEN 2 * (Micro - normalCDF(AbsMicro(t)))
                 ELSE SmallDfPValue(absT))

\* the callback of tStats.map in calculateStatistics (lines 165-184)
VarPValue(t, df) ==
  LET absT == NumAbs(t)
  IN  IF ~IsFinite(absT) THEN 999000
      ELSE IF df > 30 THEN Clamp(2 * (Micro - normalCDF(AbsMicro(t))))
      ELSE SmallDfPValue(absT)

(***************************************************************************)
(* class VARModel (VAR/VARModel.js).  The numbers are the doubles the code *)
(* computes, every operation rounded as IEEE 754 rounds it; the functions  *)
(* of mathjs are the ones for dense matrices.                              *)
(***************************************************************************)
\* the value undefined
Undefined == [k |-> "undefined"]

\* a value used in arithmetic: undefined becomes NaN
ToNumber(a) == IF a.k = "undefined" THEN NaN ELSE a

\* JavaScript truthiness of a number or undefined: false for 0, -0, NaN and
\* undefined
VarTruthy(a) == a.k # "undefined" /\ ~IsNaN(a) /\ ~NumIsZero(a)

\* 1 / lambda of the regularization of fit()
VarLambdaInv == 100000000

\* 1 / 0.001, the width of the noise
NoiseScaleInv == 1000

\* row . column j of B in math.multiply: the first product, then the others
\* added one by one
RECURSIVE DotFrom(_, _, _, _)
DotFrom(row, B, j, x) ==
  IF x = 1 THEN NumMul(row[1], B[1][j])
  ELSE NumAdd(DotFrom(row, B, j, x - 1), NumMul(row[x], B[x][j]))

\* math.multiply(A, B) of two matrices
MathMultiply(A, B) ==
  AsArray([i \in 1..Len(A) |->
     AsArray([j \in 1..Len(B[1]) |-> DotFrom(A[i], B, j, Len(B))])])

\* math.transpose(A)
MathTranspose(A) ==
  AsArray([j \in 1..Len(A[1]) |-> AsArray([i \in 1..Len(A) |-> A[i][j]])])

\* math.identity([n, n])
MathIdentity(n) ==
  AsArray([i \in 1..n |-> AsArray([j \in 1..n |-> NumInt(IF i = j THEN 1 ELSE 0)])])

\* math.multiply(scalar, A)
MathScale(scalar, A) ==
  AsArray([i \in 1..Len(A) |->
     AsArray([j \in 1..Len(A[i]) |-> NumMul(scalar, A[i][j])])])

\* math.add(A, B)
MathAdd(A, B) ==
  AsArray([i \in 1..Len(A) |->
     AsArray([j \in 1..Len(A[i]) |-> NumAdd(A[i][j], B[i][j])])])

\* math.subtract(A, B)
MathSubtract(A, B) ==
  AsArray([i \in 1..Len(A) |->
     AsArray([j \in 1..Len(A[i]) |-> NumSub(A[i][j], B[i][j])])])

\* the pivot of column c in math.inv: the row of the largest |A[r][c]| among
\* the rows from c on, the first of equal ones
RECURSIVE PivotRow(_, _, _, _)
PivotRow(A, c, r, rBig) ==
  IF r > Len(A) THEN rBig
  ELSE PivotRow(A, c, r + 1,
                IF NumLess(NumAbs(A[rBig][c]), NumAbs(A[r][c])) THEN r ELSE rBig)

SwapRows(A, c, r) == IF r = c THEN A ELSE [A EXCEPT ![c] = A[r], ![r] = A[c]]

\* the row Ar with f times the row Ac added from the column from on
AddMultiple(Ar, Ac, f, from) ==
  AsArray([s \in 1..Len(Ar) |->
     IF s < from THEN Ar[s] ELSE NumAdd(Ar[s], NumMul(f, Ac[s]))])

\* the row Ar divided by f from the column from on
DivideRow(Ar, f, from) ==
  AsArray([s \in 1..Len(Ar) |-> IF s < from THEN Ar[s] ELSE NumDiv(Ar[s], f)])

\* the row r in the elimination of column c: the pivot row is divided by
\* its pivot, any other row that is not 0 at c has the multiple of the pivot
\* row added that makes it 0 there
ReduceRow(AB, c, r) ==
  IF r # c
  THEN IF NumEquals(AB.A[r][c], NumInt(0)) THEN AB
       ELSE Only({ [A |-> [AB.A EXCEPT ![r] = AddMultiple(AB.A[r], AB.A[c], f, c)],
                    B |-> [AB.B EXCEPT ![r] = AddMultiple(AB.B[r], AB.B[c], f, 1)]] :
                   f \in {NumDiv(NumNeg(AB.A[r][c]), AB.A[c][c])} })
  ELSE Only({ [A |-> [AB.A EXCEPT ![r] = DivideRow(AB.A[r], f, c)],
               B |-> [AB.B EXCEPT ![r] = DivideRow(AB.B[r], f, 1)]] :
              f \in {AB.A[c][c]} })

\* the rows r, r + 1, ... in the elimination of column c, one after another
RECURSIVE ReduceRows(_, _, _)
ReduceRows(AB, c, r) ==
  IF r > Len(AB.A) THEN AB
  ELSE ReduceRows(Only({ReduceRow(AB, c, r)}), c, r + 1)

\* the elimination of the columns c, c + 1, ... of A next to B: it throws at
\* a column whose largest element is 0
RECURSIVE GaussJordan(_, _)
GaussJordan(AB, c) ==
  IF c > Len(AB.A) THEN [threw |-> FALSE, inverse |-> AB.B]
  ELSE Only({ IF NumEquals(NumAbs(AB.A[rBig][c]), NumInt(0))
              THEN [threw |-> TRUE, inverse |-> <<>>]
              ELSE GaussJordan(ReduceRows([A |-> SwapRows(AB.A, c, rBig),
                                           B |-> SwapRows(AB.B, c, rBig)], c, 1),
                               c + 1) :
              rBig \in {PivotRow(AB.A, c, c + 1, c)} })

\* math.inv of a 2 x 2 matrix with the determinant d
Inv2(m, d) ==
  IF NumEquals(d, NumInt(0)) THEN [threw |-> TRUE, inverse |-> <<>>]
  ELSE [threw |-> FALSE,
        inverse |-> <<<<NumDiv(m[2][2], d), NumDiv(NumNeg(m[1][2]), d)>>,
                      <<NumDiv(NumNeg(m[2][1]), d), NumDiv(m[1][1], d)>>>>]

\* math.inv(m) of a square matrix: whether it throws "Cannot calculate
\* inverse, determinant is zero", and the inverse
MathInv(m) ==
  IF Len(m) = 1
  THEN IF NumEquals(m[1][1], NumInt(0)) THEN [threw |-> TRUE, inverse |-> <<>>]
       ELSE [threw |-> FALSE, inverse |-> <<<<NumDiv(NumInt(1), m[1][1])>>>>]
  ELSE IF Len(m) = 2
  THEN Inv2(m, NumSub(NumMul(m[1][1], m[2][2]), NumMul(m[2][1], m[1][2])))
  ELSE GaussJordan([A |-> m, B |-> MathIdentity(Len(m))], 1)

\* new VARModel(lags)
NewVARModel(lags) ==
  [kind |-> "VARModel", lags |-> lags, params |-> None, pvalues |-> None,
   trained |-> FALSE, variableNames |-> None, numVariables |-> None,
   residuals |-> None, fitted |-> None]

\* a value as a member of a Set: 0 and -0 are one member
SameValueZero(a) == IF NumIsZero(a) THEN PositiveZero ELSE a

\* whether a column holds at most one distinct value (lines 67-70)
IsConstantColumn(data, var) ==
  Cardinality({ SameValueZero(data[o][var]) : o \in 1..Len(data) }) <= 1

\* (Math.random() - 0.5) * 0.001 for the value Math.random() returned
NoiseOf(random) == NumMul(NumSub(random, Fin(1, 2)), Fin(1, NoiseScaleInv))

\* noise on every entry of every column; draws are the values Math.random()
\* returns, in the order of the calls
addNoiseToAllColumns(data, draws) ==
  AsArray([obs \in 1..Len(data) |->
     AsArray([var \in 1..Len(data[1]) |->
        NumAdd(data[obs][var], NoiseOf(draws[(Len(data) * (var - 1)) + obs]))])])

\* addNoiseToConstantColumns(data): noise on every entry of a column that
\* holds at most one distinct value, the columns taken in order and within a
\* column the observations; draws are the values Math.random() returns, in
\* the order of the calls
addNoiseToConstantColumns(data, draws) ==
  AsArray([obs \in 1..Len(data) |->
     AsArray([var \in 1..Len(data[1]) |->
        IF IsConstantColumn(data, var)
        THEN NumAdd(data[obs][var],
                    NoiseOf(draws[(Len(data)
                                   * Cardinality({ v \in 1..(var - 1) :
                                                     IsConstantColumn(data, v) }))
                                  + obs]))
        ELSE data[obs][var]])])

\* the lagged part of a row of createLaggedMatrix(): the observations
\* t-1, ..., t-lags (t a JavaScript index), each entire
RECURSIVE LaggedRow(_, _, _, _)
LaggedRow(data, lags, t, lag) ==
  IF lag > lags THEN <<>>
  ELSE data[(t - lag) + 1] \o LaggedRow(data, lags, t, lag + 1)

\* the examples with every row laid out variable by variable: for each
\* variable its values at t-1, ..., t-lags
createLaggedMatrixByVariable(data, lags) ==
  [X |-> AsArray([r \in 1..Max2(Len(data) - lags, 0) |->
            <<NumInt(1)>> \o AsArray([c \in 1..(Len(data[1]) * lags) |->
               data[(r + lags) - (((c - 1) % lags) + 1)][((c - 1) \div lags) + 1]])]),
   y |-> AsArray([r \in 1..Max2(Len(data) - lags, 0) |-> data[r + lags]])]

\* createLaggedMatrix(data, lags): one example for t = lags..numObs-1
createLaggedMatrix(data, lags) ==
  [X |-> AsArray([r \in 1..Max2(Len(data) - lags, 0) |->
            <<NumInt(1)>> \o LaggedRow(data, lags, (r + lags) - 1, 1)]),
   y |-> AsArray([r \in 1..Max2(Len(data) - lags, 0) |-> data[r + lags]])]

\* `Var_${i}`
DefaultNames(n) == AsArray([i \in 1..n |-> "Var_" \o ToString(i - 1)])

\* the t statistic of one parameter (lines 160-164).  stdErrors is the
\* mathjs Matrix that math.diag(paramCov).map(...) returns, so
\* stdErrors[paramIdx] is undefined, se > 0 is false and the statistic is 0
\* whatever the parameter and the covariance are
VarTStat(param) == NumInt(0)

\* calculateStatistics(): this.pvalues, one row per equation, in millionths
VarStatistics(X, y, params, numVariables) ==
  AsArray([eq \in 1..numVariables |->
     AsArray([p \in 1..Len(params) |->
        VarPValue(VarTStat(params[p][eq]), Len(X) - Len(X[1]))])])

\* lines 120-131 of fit(): beta stored with the fitted values and the
\* residuals, then calculateStatistics(), in which math.inv(X'X) throws
\* (line 151) before this.pvalues is assigned
VarEstimated(named, X, y, beta, yPred, XTX) ==
  Only({ IF MathInv(XTX).threw
         THEN Threw(estimated, "Cannot calculate inverse, determinant is zero")
         ELSE Returned([estimated EXCEPT
                          !.pvalues = Some(VarStatistics(X, y, beta,
                                                         named.numVariables[1])),
                          !.trained = TRUE],
                       Some("this")) :
         estimated \in {[named EXCEPT !.params = Some(beta),
                                      !.fitted = Some(yPred),
                                      !.residuals = Some(MathSubtract(y, yPred))]} })

\* lines 118-124 of fit(): beta from the inverse of the regularized matrix
\* and X'y, and the fitted values X beta
VarSolved(named, X, y, XTX, XTy, inverse) ==
  IF inverse.threw
  THEN Threw(named, "Cannot calculate inverse, determinant is zero")
  ELSE Only({ VarEstimated(named, X, y, beta, MathMultiply(X, beta), XTX) :
              beta \in {MathMultiply(inverse.inverse, XTy)} })

\* lines 108-118 of fit(): X'X, the regularized matrix and X'y
VarNormal(named, X, y, XT, XTX) ==
  VarSolved(named, X, y, XTX, MathMultiply(XT, y),
            MathInv(MathAdd(XTX, MathScale(Fin(1, VarLambdaInv),
                                           MathIdentity(Len(XTX))))))

\* lines 104-109 of fit() for the design matrix X and the targets y
VarRegression(named, X, y, XT) == VarNormal(named, X, y, XT, MathMultiply(XT, X))

\* fit(data, variableNames); draws are the values Math.random() returns
\* during the call
VarFit(m, data, variableNames, draws) ==
  IF Len(data) = 0
  THEN \* line 89: data[0] is undefined
       Threw(m, "TypeError")
  ELSE
  LET named == [m EXCEPT !.numVariables = Some(Len(data[1])),
                         !.variableNames =
                            IF variableNames = None
                            THEN Some(DefaultNames(Len(data[1])))
                            ELSE variableNames]
  IN  IF Len(data) <= m.lags
      THEN \* line 101: X[0] is undefined
           Threw(named, "TypeError")
      ELSE Only({ VarRegression(named, lagged.X, lagged.y, MathTranspose(lagged.X)) :
                  lagged \in {createLaggedMatrix(
                                addNoiseToConstantColumns(data, draws), m.lags)} })

\* the input vector with the window read from its oldest observation on
InputVectorOldestFirst(currentData, lags) ==
  <<NumInt(1)>>
  \o LaggedRow([i \in 1..Len(currentData) |-> currentData[(Len(currentData) + 1) - i]],
               lags, Len(currentData), 1)

\* the input vector of one step of predict(): the constant, then the window
\* read from its newest observation back
InputVector(currentData, lags) ==
  <<NumInt(1)>> \o LaggedRow(currentData, lags, Len(currentData), 1)

\* pred = 0; pred += s[0]; pred += s[1]; ...
RECURSIVE VarSumTo(_, _)
VarSumTo(s, i) == IF i = 0 THEN NumInt(0) ELSE NumAdd(VarSumTo(s, i - 1), s[i])

\* M[i][j] of a matrix whose row i exists: undefined past the end of the row
EntryOrUndefined(M, i, j) == IF j \in 1..Len(M[i]) THEN M[i][j] ELSE Undefined

\* the prediction of one step: for every variable the sum over the input
\* vector of params[paramIdx][varIdx] * inputVector[paramIdx], NaN once a
\* row of params has no entry for the variable
PredictionOf(m, inputVector) ==
  AsArray([varIdx \in 1..m.numVariables[1] |->
     VarSumTo(AsArray([paramIdx \in 1..Len(inputVector) |->
                 NumMul(ToNumber(EntryOrUndefined(m.params[1], paramIdx, varIdx)),
                        inputVector[paramIdx])]),
              Len(inputVector))])

\* currentData after a step: the prediction pushed, the oldest observation
\* shifted out when the window is longer than lags
Advance(currentData, prediction, lags) ==
  LET pushed == Append(currentData, prediction)
  IN  IF Len(pushed) > lags THEN Tail(pushed) ELSE pushed

\* whether a step reads an undefined element: an observation missing from the
\* window (line 235) or a row missing from params (line 243)
StepThrows(m, currentData) ==
  \/ Len(currentData) < m.lags
  \/ m.params = None
  \/ Len(InputVector(currentData, m.lags)) > Len(m.params[1])

\* the steps of the loop of predict(), up to the first that throws: for each
\* the window before it, its input vector and its prediction
RECURSIVE PredictSteps(_, _, _)
PredictSteps(m, currentData, steps) ==
  IF steps <= 0 \/ StepThrows(m, currentData) THEN <<>>
  ELSE Only({ <<[window |-> currentData,
                 input |-> InputVector(currentData, m.lags),
                 prediction |-> prediction]>>
              \o PredictSteps(m, Advance(currentData, prediction, m.lags), steps - 1) :
              prediction \in {PredictionOf(m, InputVector(currentData, m.lags))} })

\* predict(data, steps): the predictions, with the steps that produced them and
\* the caller's data after the call
VarPredict(m, data, steps) ==
  IF ~m.trained THEN Threw(m, "Model not trained. Call fit() first.")
  ELSE LET recentData == JsSliceLast(data, m.lags)
           trace == PredictSteps(m, recentData, steps)
       IN  IF Len(trace) < steps THEN Threw(m, "TypeError")
           ELSE Returned(m, Some([predictions |->
                                    AsArray([k \in 1..Len(trace) |-> trace[k].prediction]),
                                  steps |-> trace,
                                  data |-> data]))

\* summary(): for a model that is not trained the string "Model not
\* trained.", held in a record of its own so that it can be told from the
\* summary object; for a model marked trained without params, as import()
\* of such a string leaves it, this.params.length throws (line 269)
VarSummary(m) ==
  IF ~m.trained THEN Returned(m, Some([text |-> "Model not trained."]))
  ELSE IF m.params = None THEN Threw(m, "TypeError")
  ELSE Returned(m, Some([lags |-> m.lags, numVariables |-> m.numVariables,
                         numParameters |-> Len(m.params[1]),
                         variableNames |-> m.variableNames, params |-> m.params,
                         pvalues |-> m.pvalues, residuals |-> m.residuals,
                         fitted |-> m.fitted]))


MaxObs == 4

MaxSteps == 3

LagChoices == {1, 2}

VariableCounts == {1, 2}

VarVals == {0, 1}

\* the values Math.random() returns during one call of fit(), in the order
\* of the calls: sixteenths in [0, 1), one for every entry of the largest
\* matrix
RandomDraws(first, step) ==
  [i \in 1..(2 * (MaxObs + 2)) |-> Dyadic((first + (step * (i - 1))) % 16, 16)]

NoiseDraws == {RandomDraws(1, 5), RandomDraws(14, 3)}

VarCall(op, data, steps, pre, r) ==
  [op |-> op, data |-> data, steps |-> steps, pre |-> pre,
   outcome |-> r.outcome, error |-> r.error, value |-> r.value]

\* parameters as KfGom.import() restores them from an exported model
RestoredParams(lags, nv) ==
  { AsArray([p \in 1..(1 + (nv * lags)) |->
       AsArray([v \in 1..nv |-> NumInt((((a * p) + (b * v)) % 3) - 1)])]) :
    a \in {1, 2}, b \in {1, 2} }

\* the trained models KfGom.import() builds (lines 311-316)
RestoredModels ==
  UNION { { [NewVARModel(lags) EXCEPT !.params = Some(params),
                                      !.pvalues = Some(<<>>),
                                      !.trained = TRUE,
                                      !.variableNames = Some(DefaultNames(nv)),
                                      !.numVariables = Some(nv)] :
            params \in RestoredParams(lags, nv) } :
          lags \in LagChoices, nv \in VariableCounts }

\* the inputs of one scenario: the data the calls are given
VarScenario(data) == [op |-> "var", data |-> data]

\* the observations predict() is called with: up to one row more than the
\* lags, one column per variable of a trained model
RecentData(m) ==
  UNION { [1..rows -> [1..nv -> VarVals]] :
            rows \in 0..(m.lags + 1),
            nv \in IF m.trained THEN {m.numVariables[1]} ELSE {1} }

InitVar ==
  /\ varModel \in { NewVARModel(lags) : lags \in LagChoices } \cup RestoredModels
  /\ fc \in { VarScenario(NumMatrix(AsArray(data))) : data \in RecentData(varModel) }
  /\ call = NoOperation
  /\ model = NoObject
  /\ fitCall = NoCall
  /\ retStatic = NoForecast
  /\ retDynamic = NoForecast
  /\ scalerObj = NoObject
  /\ gom = NoObject
  /\ imported = NoObject

varRest == <<model, fitCall, fc, retStatic, retDynamic, scalerObj, gom, imported>>

\* model.predict(data, steps)
VarPredictCall ==
  /\ \E steps \in 0..MaxSteps :
       \E r \in {VarPredict(varModel, fc.data, steps)} :
         /\ varModel' = r.obj
         /\ call' = VarCall("predict", fc.data, steps, varModel, r)
  /\ UNCHANGED varRest

\* model.summary()
VarSummaryCall ==
  /\ \E r \in {VarSummary(varModel)} :
       /\ varModel' = r.obj
       /\ call' = VarCall("summary", <<>>, 0, varModel, r)
  /\ UNCHANGED varRest

NextVar == VarPredictCall \/ VarSummaryCall

SpecVar == InitVar /\ [][NextVar]_vars

(***************************************************************************)
(* Properties of VARModel.predict.                                         *)
(***************************************************************************)
\* predict() was called on a trained model with at least lags observations
PredictedFromEnough ==
  /\ call.op = "predict"
  /\ call.pre.trained
  /\ Len(call.data) >= call.pre.lags

\* the lag-j part of an input vector
LagInput(inputVector, j, numVariables) ==
  SubSeq(inputVector, 2 + ((j - 1) * numVariables), 1 + (j * numVariables))

\* what the lag-j input of the k-th prediction has to be: the (k-j)-th
\* prediction, or the row of data that many places before its end
LagSource(predictions, data, k, j) ==
  IF k - j >= 1 THEN predictions[k - j]
  ELSE data[Len(data) - (j - k)]

\* C19: for a trained VARModel and data with at least lags rows,
\* predict(data, steps) returns exactly steps vectors of length numVariables;
\* the lag window holds exactly lags vectors before every step; the lag-j
\* input of the k-th prediction is the (k-j)-th prediction when k - j >= 1 and
\* the corresponding trailing row of data otherwise; data is not modified
C19_PredictWindow ==
  PredictedFromEnough =>
    /\ call.outcome = "returned"
    /\ LET out == call.value[1]
           m == call.pre
       IN  /\ Len(out.predictions) = call.steps
           /\ \A k \in 1..Len(out.predictions) :
                Len(out.predictions[k]) = m.numVariables[1]
           /\ Len(out.steps) = call.steps
           /\ \A k \in 1..Len(out.steps) :
                /\ Len(out.steps[k].window) = m.lags
                /\ \A j \in 1..m.lags :
                     LagInput(out.steps[k].input, j, m.numVariables[1])
                       = LagSource(out.predictions, call.data, k, j)
           /\ out.data = call.data

\* three steps predicted by a VAR(2) model of two variables from more
\* observations than lags
C19_Witness ==
  /\ PredictedFromEnough
  /\ call.outcome = "returned"
  /\ call.steps = MaxSteps
  /\ call.pre.lags = 2
  /\ call.pre.numVariables = Some(2)
  /\ Len(call.data) > call.pre.lags
  /\ call.value[1].predictions[1] # call.value[1].predictions[2]

(***************************************************************************)
(* Training, repeated: SARIMAX.fit and VARModel.fit, each on an instance   *)
(* that is fitted again and again and on a second instance, built from the *)
(* same inputs, that is fitted once.                                       *)
(***************************************************************************)
\* fit() as it runs: where the exact determinant of X'X is 0 and the
\* elimination of math.inv depends on rounding, the doubles decide
FitRun(m) ==
  LET results == FitResults(m)
  IN  IF Cardinality(results) = 1 THEN Only(results)
      ELSE Only({ r \in results :
                    (r.outcome = "threw") = MathInv(NumMatrix(Gram(r.X))).threw })

MaxFeatures == 3

\* the data a VAR(lags) model is trained on: no row, or up to MaxObs rows of
\* data[t][v] = (a*t + b*(v-1)*t*t) mod 3; every column is constant for
\* a = b = 0 and the first one for a = 0.  At most MaxFeatures columns in the
\* design matrix, as for the SARIMAX instances of this part
TrainingData(lags) ==
  {<<>>} \cup
  { NumMatrix(AsArray([t \in 1..n |->
       AsArray([v \in 1..nv |-> ((a * t) + ((b * (v - 1)) * (t * t))) % 3])])) :
      n \in 1..MaxObs, nv \in { c \in VariableCounts : 1 + (c * lags) <= MaxFeatures },
      a \in {0, 1, 2}, b \in {0, 1} }

InitTraining ==
  /\ \/ /\ \E inp \in TrainingInputs :
             /\ Len(inp.exog[1]) + inp.order <= MaxFeatures
             /\ model = Constructor(inp.endog, inp.exog, inp.order)
             /\ imported = Constructor(inp.endog, inp.exog, inp.order)
        /\ varModel = NoObject
        /\ fc = VarScenario(<<>>)
     \/ /\ model = NoObject
        /\ varModel \in { NewVARModel(lags) : lags \in LagChoices }
        /\ imported = NewVARModel(varModel.lags)
        /\ fc \in { VarScenario(data) : data \in TrainingData(varModel.lags) }
  /\ fitCall = NoCall
  /\ call = NoOperation
  /\ retStatic = NoForecast
  /\ retDynamic = NoForecast
  /\ scalerObj = NoObject
  /\ gom = NoObject

\* model.fit() on the SARIMAX instance, any number of times once the second
\* instance has been fitted
Train ==
  /\ model # NoObject
  /\ call.op = "fit"
  /\ \E r \in {FitRun(model)} :
       /\ model' = r.model
       /\ fitCall' = [outcome |-> r.outcome, X |-> r.X, y |-> r.y,
                      again |-> fitCall.outcome # "none"]
  /\ UNCHANGED <<fc, retStatic, retDynamic, otherVars>>

\* twin.fit() on the second SARIMAX instance, once, before the first is
\* fitted
TrainTwin ==
  /\ model # NoObject
  /\ call.op = "none"
  /\ \E r \in {FitRun(imported)} :
       /\ imported' = r.model
       /\ call' = [op |-> "fit", outcome |-> r.outcome]
  /\ UNCHANGED <<model, fitCall, fc, retStatic, retDynamic, scalerObj, varModel, gom>>

\* what the call of fit() on a VAR model leaves in call
VarFitted(pre, r) ==
  [op |-> "fit", again |-> pre.numVariables # None, outcome |-> r.outcome,
   error |-> r.error]

\* model.fit(data) on the VAR instance, any number of times once the second
\* instance has been fitted, Math.random() returning any of the draws
VarFitCall ==
  /\ varModel # NoObject
  /\ fitCall.outcome # "none"
  /\ \E draws \in NoiseDraws :
       \E r \in {VarFit(varModel, fc.data, None, draws)} :
         /\ varModel' = r.obj
         /\ call' = VarFitted(varModel, r)
  /\ UNCHANGED varRest

\* twin.fit(data) on the second VAR instance, once, before the first is
\* fitted, Math.random() returning any of the draws
VarFitTwin ==
  /\ varModel # NoObject
  /\ model = NoObject
  /\ imported.kind = "VARModel"
  /\ fitCall.outcome = "none"
  /\ \E draws \in NoiseDraws :
       \E r \in {VarFit(imported, fc.data, None, draws)} :
         /\ imported' = r.obj
         /\ fitCall' = [outcome |-> r.outcome, X |-> <<>>, y |-> <<>>,
                        error |-> r.error]
  /\ UNCHANGED <<model, fc, retStatic, retDynamic, scalerObj, call, varModel, gom>>

NextTraining == Train \/ TrainTwin \/ VarFitCall \/ VarFitTwin

SpecTraining == InitTraining /\ [][NextTraining]_vars

(***************************************************************************)
(* Properties of training.                                                 *)
(***************************************************************************)
NoConstantColumn(data) ==
  /\ Len(data) > 0
  /\ \A var \in 1..Len(data[1]) : ~IsConstantColumn(data, var)

\* both SARIMAX instances have been fitted
BothTrained == model # NoObject /\ fitCall.outcome # "none" /\ call.op = "fit"

\* both VAR instances have been fitted
BothVarFitted ==
  varModel # NoObject /\ model = NoObject /\ call.op = "fit" /\ fitCall.outcome # "none"

\* C18: fitting is deterministic: of two SARIMAX instances built from the
\* same endog, exog and order, the one fitted once and the one fitted once or
\* more hold the same coefficients and statistics, their last calls ending
\* alike; the same for two VARModel instances fitted on data without a
\* constant column, whatever Math.random() returns in any of the calls
C18_FitDeterministic ==
  /\ BothTrained =>
       /\ model = imported
       /\ fitCall.outcome = call.outcome
  /\ (BothVarFitted /\ NoConstantColumn(fc.data)) =>
       /\ varModel = imported
       /\ call.outcome = fitCall.outcome
       /\ call.error = fitCall.error

\* a VAR model of two variables fitted again, and a second one fitted once, on
\* data without a constant column; both calls returned
C18_Witness ==
  /\ BothVarFitted
  /\ call.again
  /\ call.outcome = "returned"
  /\ NoConstantColumn(fc.data)
  /\ varModel.numVariables = Some(2)
  /\ varModel.params # None

(***************************************************************************)
(* class KfGom (VAR/KfGom.js).                                             *)
(***************************************************************************)
GomLags == 2

\* `${v}(t-${lag})`
LagLabel(v, lag) == v \o "(t-" \o ToString(lag) \o ")"

\* ['Bias', ...variables_1, ...variables_2]
DefaultCoefLabels(variables) ==
  <<"Bias">> \o AsArray([i \in 1..Len(variables) |-> LagLabel(variables[i], 1)])
             \o AsArray([i \in 1..Len(variables) |-> LagLabel(variables[i], 2)])

\* new KfGom(variables)
NewKfGom(variables) ==
  [kind |-> "KfGom", variables |-> variables,
   coefLabels |-> DefaultCoefLabels(variables), model |-> NoObject,
   coef |-> None, pvalues |-> None, dfPred |-> None, dfY |-> None,
   lags |-> GomLags, trained |-> FALSE]

\* the index an object key was last assigned from
LastIndex(keys, key) ==
  CHOOSE i \in 1..Len(keys) :
    /\ keys[i] = key
    /\ \A j \in 1..Len(keys) : keys[j] = key => j <= i

\* the coefficients keyed with the labels taken from the last to the first
formatCoefficientsReversed(g, params) ==
  [variable \in {g.variables[i] : i \in 1..Len(g.variables)} |->
     [label \in {g.coefLabels[i] : i \in 1..Len(g.coefLabels)} |->
        EntryOrUndefined(params, (Len(g.coefLabels) + 1) - LastIndex(g.coefLabels, label),
                         LastIndex(g.variables, variable))]]

\* formatCoefficients(params): result[variable][label] = params[paramIdx][varIdx]
\* for params with a row for every label
formatCoefficients(g, params) ==
  [variable \in {g.variables[i] : i \in 1..Len(g.variables)} |->
     [label \in {g.coefLabels[i] : i \in 1..Len(g.coefLabels)} |->
        EntryOrUndefined(params, LastIndex(g.coefLabels, label),
                         LastIndex(g.variables, variable))]]

\* formatPValues(pvalues): result[variable][label] = pvalues[varIdx][paramIdx]
\* for pvalues with a row for every variable
formatPValues(g, pvalues) ==
  [variable \in {g.variables[i] : i \in 1..Len(g.variables)} |->
     [label \in {g.coefLabels[i] : i \in 1..Len(g.coefLabels)} |->
        pvalues[LastIndex(g.variables, variable)][LastIndex(g.coefLabels, label)]]]

\* generatePredictions(dataMatrix): for t = lags..length-2 the one-step
\* prediction from the rows t-lags..t-1, and the row t
generatePredictions(g, m, dataMatrix) ==
  [predictions |->
     AsArray([i \in 1..Max2((Len(dataMatrix) - 1) - g.lags, 0) |->
        VarPredict(m, JsSlice(dataMatrix, i - 1, (i - 1) + g.lags), 1)
          .value[1].predictions[1]]),
   actuals |->
     AsArray([i \in 1..Max2((Len(dataMatrix) - 1) - g.lags, 0) |->
        dataMatrix[i + g.lags]])]

\* lines 97-112 of doGom() for the model that fit() returned.
\* formatCoefficients reads params[paramIdx][varIdx] (line 127), which throws
\* when params has fewer rows than there are labels; formatPValues reads
\* pvalues[varIdx][paramIdx] (line 146), which throws when there are fewer
\* equations than variables, this.coef assigned by then
DoGomFitted(withModel, g, m, dataMatrix) ==
  IF Len(m.params[1]) < Len(g.coefLabels) THEN Threw(withModel, "TypeError")
  ELSE IF Len(m.pvalues[1]) < Len(g.variables)
  THEN Threw([withModel EXCEPT !.coef = Some(formatCoefficients(g, m.params[1]))],
             "TypeError")
  ELSE Only({ Returned([withModel EXCEPT !.coef = Some(coef),
                                         !.pvalues = Some(formatPValues(g, m.pvalues[1])),
                                         !.dfPred = Some(predictions.predictions),
                                         !.dfY = Some(predictions.actuals),
                                         !.trained = TRUE],
                       Some([coef |-> coef, dfPred |-> predictions.predictions])) :
              coef \in {formatCoefficients(g, m.params[1])},
              predictions \in {generatePredictions(g, m, dataMatrix)} })

\* doGom(eulerAngles) for a data matrix; draws are the values Math.random()
\* returns during the call
DoGom(g, eulerAngles, draws) ==
  IF Len(eulerAngles) = 0
  THEN \* line 88: dataMatrix[0] is undefined
       Threw(g, "TypeError")
  ELSE Only({ IF fit.outcome = "threw"
              THEN Threw([g EXCEPT !.model = fit.obj], fit.error)
              ELSE DoGomFitted([g EXCEPT !.model = fit.obj], g, fit.obj, eulerAngles) :
              fit \in {VarFit(NewVARModel(g.lags), eulerAngles, Some(g.variables),
                              draws)} })

\* pred of predAngCoef after the first q lagged terms, taken lag by lag and
\* within a lag variable by variable: pred starts as variableCoefs['Bias'],
\* and a term is added when its coefficient is truthy
RECURSIVE PredTerms(_, _, _, _, _)
PredTerms(g, variableCoefs, datMod, t, q) ==
  IF q = 0
  THEN IF "Bias" \in DOMAIN variableCoefs THEN variableCoefs["Bias"] ELSE Undefined
  ELSE LET lag == ((q - 1) \div Len(g.variables)) + 1
           lagVarIdx == ((q - 1) % Len(g.variables)) + 1
           lagLabel == LagLabel(g.variables[lagVarIdx], lag)
       IN  IF lagLabel \in DOMAIN variableCoefs /\ VarTruthy(variableCoefs[lagLabel])
           THEN NumAdd(ToNumber(PredTerms(g, variableCoefs, datMod, t, q - 1)),
                       NumMul(variableCoefs[lagLabel],
                              ToNumber(EntryOrUndefined(datMod, (t - lag) + 1,
                                                        lagVarIdx))))
           ELSE PredTerms(g, variableCoefs, datMod, t, q - 1)

\* predAngCoef(datMod, coefMod): one prediction for t = lags..length-1
PredAngCoef(g, datMod, coefMod) ==
  AsArray([i \in 1..Max2(Len(datMod) - g.lags, 0) |->
     AsArray([varIdx \in 1..Len(g.variables) |->
        PredTerms(g, coefMod[g.variables[varIdx]], datMod, (i + g.lags) - 1,
                  g.lags * Len(g.variables))])])

\* export(): what this.model.summary() throws, export() throws
Export(g) ==
  IF ~g.trained THEN Threw(g, "Model not trained")
  ELSE IF VarSummary(g.model).outcome = "threw"
  THEN Threw(g, VarSummary(g.model).error)
  ELSE Returned(g, Some([variables |-> g.variables, coefLabels |-> g.coefLabels,
                         coef |-> g.coef, pvalues |-> g.pvalues, lags |-> g.lags,
                         modelParams |-> VarSummary(g.model).value[1]]))

\* modelParams.params or modelParams.pvalues: undefined, held as null is,
\* when modelParams is the string of a model that is not trained
SummaryField(modelParams, field) ==
  IF field \in DOMAIN modelParams THEN modelParams[field] ELSE None

\* import(modelData) that leaves the recreated VAR model untrained
ImportUntrainedModel(g, modelData) ==
  [g EXCEPT !.variables = modelData.variables,
            !.coefLabels = modelData.coefLabels,
            !.coef = modelData.coef,
            !.pvalues = modelData.pvalues,
            !.lags = modelData.lags,
            !.model = [NewVARModel(modelData.lags) EXCEPT
                         !.params = SummaryField(modelData.modelParams, "params"),
                         !.pvalues = SummaryField(modelData.modelParams, "pvalues"),
                         !.variableNames = Some(modelData.variables),
                         !.numVariables = Some(Len(modelData.variables))],
            !.trained = TRUE]

\* import(modelData)
Import(g, modelData) ==
  [g EXCEPT !.variables = modelData.variables,
            !.coefLabels = modelData.coefLabels,
            !.coef = modelData.coef,
            !.pvalues = modelData.pvalues,
            !.lags = modelData.lags,
            !.model = [NewVARModel(modelData.lags) EXCEPT
                         !.params = SummaryField(modelData.modelParams, "params"),
                         !.pvalues = SummaryField(modelData.modelParams, "pvalues"),
                         !.trained = TRUE,
                         !.variableNames = Some(modelData.variables),
                         !.numVariables = Some(Len(modelData.variables))],
            !.trained = TRUE]


\* the variables of the instances
GomVariables == {<<"a">>, <<"a", "b">>}

\* the variables of the fresh instances an export is imported into
FreshVariables == {<<"x">>, <<"x", "y">>}

\* a matrix of rows frames and cols columns without a constant column, whose
\* design matrix has full rank once it has a row for every column: the first
\* column is (t(t+1)/2) mod 2, any other t mod 3
Frames(rows, cols) ==
  NumMatrix(AsArray([t \in 1..rows |->
     AsArray([v \in 1..cols |-> IF v = 1 THEN ((t * (t + 1)) \div 2) % 2 ELSE t % 3])]))

\* a matrix of one constant column
ConstantFrames(rows, c) == NumMatrix(AsArray([t \in 1..rows |-> <<c>>]))

\* a matrix whose only column alternates, so that the lagged columns of its
\* design matrix add up to the constant one
AlternatingFrames(rows) == NumMatrix(AsArray([t \in 1..rows |-> <<t % 2>>]))

\* a matrix of one column that steps from 0 to 1 after its first GomLags
\* rows
StepFrames(rows) ==
  NumMatrix(AsArray([t \in 1..rows |-> <<IF t <= GomLags THEN 0 ELSE 1>>]))

\* the longest matrix an instance is trained on
MaxFrames == (MaxObs + GomLags) + 1

\* the matrices doGom() is given in one scenario, for an instance of nv
\* variables: with one column per variable, with a column more or a column
\* less, without a row, with no more rows than lags, constant, and with a
\* design matrix that has no inverse
GomData(nv) ==
  IF nv = 1
  THEN { {Frames(MaxFrames - 2, 1), Frames(MaxFrames, 2)},
         {Frames(MaxFrames - 2, 1), AlternatingFrames(GomLags + 2)},
         {ConstantFrames(GomLags + 2, 1), <<>>},
         {Frames(GomLags, 1), Frames(GomLags + 2, 1)},
         {StepFrames(GomLags + 3), Frames(MaxFrames - 1, 1)} }
  ELSE { {Frames(MaxFrames, 2), Frames(MaxFrames - 2, 1)},
         {Frames(MaxFrames, 2), Frames(MaxFrames - 1, 2)},
         {Frames(GomLags + 1, 2)} }

\* the values Math.random() returns during a call of fit() on data: one for
\* every entry of a constant column
DrawsFor(data) ==
  IF Len(data) = 0 THEN {<<>>}
  ELSE { SubSeq(draws, 1,
                Len(data) * Cardinality({ v \in 1..Len(data[1]) :
                                            IsConstantColumn(data, v) })) :
         draws \in NoiseDraws }

\* the instance a call was made on: its variables and whether it was trained
GomBefore(g) == [variables |-> g.variables, trained |-> g.trained]

GomCall(op, pre, r) ==
  [op |-> op, pre |-> pre, outcome |-> r.outcome, error |-> r.error, value |-> r.value]

\* the inputs of one scenario: the matrices the instance is trained on
GomScenario(matrices) == [op |-> "gom", matrices |-> matrices]

InitGom ==
  /\ gom \in { NewKfGom(variables) : variables \in GomVariables }
  /\ imported \in { NewKfGom(variables) : variables \in FreshVariables }
  /\ fc \in { GomScenario(matrices) : matrices \in GomData(Len(gom.variables)) }
  /\ call = NoOperation
  /\ model = NoObject
  /\ fitCall = NoCall
  /\ retStatic = NoForecast
  /\ retDynamic = NoForecast
  /\ scalerObj = NoObject
  /\ varModel = NoObject

gomRest == <<model, fitCall, fc, retStatic, retDynamic, scalerObj, varModel>>

\* g.doGom(data) with any of the matrices, any number of times before the
\* instance is put to use
DoGomCall ==
  /\ call.op \in {"none", "doGom"}
  /\ \E data \in fc.matrices :
       \E draws \in DrawsFor(data) :
         \E r \in {DoGom(gom, data, draws)} :
           /\ gom' = r.obj
           /\ call' = GomCall("doGom", GomBefore(gom), r)
  /\ UNCHANGED <<imported, gomRest>>

\* g.export()
ExportCall ==
  /\ \E r \in {Export(gom)} :
       /\ gom' = r.obj
       /\ call' = GomCall("export", GomBefore(gom), r)
  /\ UNCHANGED <<imported, gomRest>>

\* fresh.import(modelData) with the object export() has just returned
ImportCall ==
  /\ call.op = "export"
  /\ call.outcome = "returned"
  /\ imported' = Import(imported, call.value[1])
  /\ call' = GomCall("import", GomBefore(imported), Returned(imported', None))
  /\ UNCHANGED <<gom, gomRest>>

\* restored.export() on the instance import() has just filled
ExportImportedCall ==
  /\ call.op = "import"
  /\ \E r \in {Export(imported)} :
       /\ imported' = r.obj
       /\ call' = GomCall("export", GomBefore(imported), r)
  /\ UNCHANGED <<gom, gomRest>>

NextGom == DoGomCall \/ ExportCall \/ ImportCall \/ ExportImportedCall

SpecGom == InitGom /\ [][NextGom]_vars

(***************************************************************************)
(* Properties of KfGom export and import.                                  *)
(***************************************************************************)
\* the matrices the two instances are compared on: up to GomLags + 1 rows of
\* one or two columns
GomInputs ==
  { NumMatrix(AsArray([t \in 1..n |-> AsArray([v \in 1..nv |-> ((a * t) + v) % 3])])) :
      n \in 1..(GomLags + 1), nv \in VariableCounts, a \in {1, 2} }

SameOutcome(a, b) ==
  /\ a.outcome = b.outcome
  /\ a.error = b.error
  /\ a.value = b.value

\* the VAR model of the instance is trained, on a matrix with one column for
\* each of the variables of the instance: its last doGom() fitted the model
\* on such a matrix
TrainedOnItsVariables(g) ==
  /\ g.trained
  /\ g.model.trained
  /\ g.model.numVariables = Some(Len(g.variables))

\* predAngCoef and model.predict of the two instances agree on every input
SamePredictions(g, h) ==
  \A datMod \in GomInputs :
    /\ PredAngCoef(h, datMod, h.coef[1]) = PredAngCoef(g, datMod, g.coef[1])
    /\ \A steps \in 0..2 :
         SameOutcome(VarPredict(h.model, datMod, steps),
                     VarPredict(g.model, datMod, steps))

\* the instance imported into is marked trained and holds the fields of g
SameFields(g, h) ==
  /\ h.trained
  /\ h.variables = g.variables
  /\ h.coefLabels = g.coefLabels
  /\ h.coef = g.coef
  /\ h.pvalues = g.pvalues
  /\ h.lags = g.lags

ExportUntrainedThrows ==
  (call.op = "export" /\ ~call.pre.trained) =>
    /\ call.outcome = "threw"
    /\ call.error = "Model not trained"

\* C20: for a trained KfGom g, importing g.export() into a fresh KfGom
\* yields an instance marked trained with the same variables, coefLabels,
\* coef, pvalues and lags, whose predAngCoef and model.predict outputs equal
\* those of g on every input; export() of an untrained KfGom throws
C20_ExportImport ==
  /\ ExportUntrainedThrows
  /\ (call.op = "import") =>
       /\ SameFields(gom, imported)
       /\ SamePredictions(gom, imported)

\* what import() does keep: the five fields always, and the predictions when
\* the last doGom() of g fitted its VAR model on a matrix with one column per
\* variable, so that the numVariables import() takes from variables.length is
\* the one the exported params were fitted with
ExportImportOfFittedModel ==
  /\ ExportUntrainedThrows
  /\ (call.op = "import") =>
       /\ SameFields(gom, imported)
       /\ TrainedOnItsVariables(gom) => SamePredictions(gom, imported)

\* the export of an instance trained on two variables imported into a fresh
\* instance of one
ExportImportWitness ==
  /\ call.op = "import"
  /\ TrainedOnItsVariables(gom)
  /\ Len(gom.variables) = 2
  /\ call.pre.variables = <<"x">>
  /\ ~call.pre.trained
  /\ VarPredict(imported.model, Frames(GomLags, 2), 2).outcome = "returned"

(***************************************************************************)
(* Properties of the pairing of lags and AR coefficients in forecasting.   *)
(***************************************************************************)
\* the value multiplied by the i-th AR coefficient in the step is the one at
\* time t-i
LagPairedWithCoefficient(step, i) == step.lagIdx[i] = step.t - i

\* the value multiplied by the i-th AR coefficient in the step is the one at
\* time t-order+i-1: the window is read oldest first
LagPairedOldestFirst(step, i) == step.lagIdx[i] = ((step.t - fc.model.order) + i) - 1

ForecastSteps ==
  (IF retStatic.op = "static" THEN {retStatic.steps} ELSE {})
  \cup (IF retDynamic.op = "dynamic" THEN {retDynamic.steps} ELSE {})

\* C21: in both forecasting strategies the lag value multiplied by the i-th AR
\* coefficient (i = 1..order) is the value at time t-i, the lag-1-first pairing
\* of the training rows
C21_LagPairing ==
  \A steps \in ForecastSteps :
    \A j \in 1..Len(steps) :
      \A i \in 1..fc.model.order : LagPairedWithCoefficient(steps[j], i)

\* what the code does: getPrediction appends the window as sliced, oldest
\* value first, so the i-th AR coefficient meets the value at t-order+i-1
ForecastLagsOldestFirst ==
  \A steps \in ForecastSteps :
    \A j \in 1..Len(steps) :
      \A i \in 1..fc.model.order : LagPairedOldestFirst(steps[j], i)

(***************************************************************************)
(* Specification of fit() on the designs of at most MaxFeatures columns.   *)
(***************************************************************************)
InitEstimate ==
  /\ InitFit
  /\ Len(model.exog[1]) + model.order <= MaxFeatures

SpecEstimate == InitEstimate /\ [][NextFit]_vars

(***************************************************************************)
(* Properties of the stability correction.                                 *)
(***************************************************************************)
\* the OLS estimate of the last fit: numerators N over the denominator D, and
\* the numerator S of the sum of its AR coefficients
OlsOfLastFit ==
  Only({ [N |-> N, D |-> OlsDenominator(fitCall.X),
          S |-> PolySum([i \in 1..model.order |-> N[i + Len(model.exog[1])]])] :
         N \in {OlsNumerators(fitCall.X, fitCall.y)} })

\* b * 0.995 / |sum| for the OLS value b = Ni / D and sum = S / D
Rescaled(Ni, D, S) ==
  [n |-> PolyScale(CorrectionNum * SignAtLambda(D), Ni),
   d |-> PolyScale(StabilityDen * SignAtLambda(S), S)]

\* the numerator of the sum of the stored AR coefficients, which share the
\* denominator of the first of them
StoredArSum(m) ==
  PolySum([i \in 1..m.order |-> m.coefficients[1][i + Len(m.exog[1])].n])

\* C22: after a successful fit the absolute value of the sum of the AR
\* coefficients is at most 0.999: when the OLS |sum| exceeds 0.999 every AR
\* coefficient is its OLS value times 0.995 / |sum| and the exogenous ones keep
\* their OLS values, and otherwise no coefficient is changed
C22_StabilityCorrection ==
  model.trained =>
    \E ols \in {OlsOfLastFit} :
      LET c == model.coefficients[1]
          numExog == Len(model.exog[1])
      IN  /\ \A i \in (numExog + 1)..Len(c) : c[i].d = c[numExog + 1].d
          /\ ~ExceedsUnitRoot(StoredArSum(model), c[numExog + 1].d)
          /\ \A i \in 1..Len(c) :
               c[i] = IF i > numExog /\ ExceedsUnitRoot(ols.S, ols.D)
                      THEN Rescaled(ols.N[i], ols.D, ols.S)
                      ELSE [n |-> ols.N[i], d |-> ols.D]

\* a trained model whose OLS estimate had an AR sum above 0.999 and an
\* exogenous coefficient other than 0
C22_Witness ==
  /\ model.trained
  /\ model.order = 2
  /\ \E ols \in {OlsOfLastFit} :
       /\ ExceedsUnitRoot(ols.S, ols.D)
       /\ SignAtLambda(ols.N[1]) # 0

(***************************************************************************)
(* Properties of the residuals.                                            *)
(***************************************************************************)
\* sum over the columns from..to of X[i][j] * coefficient j, as a numerator
\* over the denominator the coefficients from..to share
RowTimesStored(i, from, to) ==
  PolySum(AsArray([j \in 1..((to - from) + 1) |->
     PolyScale(fitCall.X[i][(from + j) - 1], model.coefficients[1][(from + j) - 1].n)]))

\* C23: after a successful fit the stored residuals are those of the final,
\* corrected coefficients, residuals[i] = y[i] - X[i] . coefficients for every
\* training row, and the statistics derived from them use these residuals and
\* these coefficients
C23_ResidualsOfFinal ==
  model.trained =>
    LET c == model.coefficients[1]
        numExog == Len(model.exog[1])
        r == model.residuals[1]
    IN  /\ Len(r) = Len(fitCall.y)
        /\ \A i \in 1..Len(r) :
             /\ r[i].y = fitCall.y[i]
             /\ r[i].exog.n = RowTimesStored(i, 1, numExog)
             /\ r[i].exog.d = c[1].d
             /\ r[i].ar.n = RowTimesStored(i, numExog + 1, Len(c))
             /\ r[i].ar.d = c[numExog + 1].d
        /\ model.mse[1].sse = r
        /\ \A i \in 1..Len(c) : model.tStats[1][i].b = c[i]

\* a trained model whose AR coefficients were corrected and whose rows are not
\* all zero
C23_Witness ==
  /\ model.trained
  /\ model.coefficients[1][1].d # model.coefficients[1][Len(model.exog[1]) + 1].d
  /\ \E i \in 1..Len(model.residuals[1]) :
       SignAtLambda(model.residuals[1][i].ar.n) # 0

(***************************************************************************)
(* Properties of the entries dynamicForecasting returns.                   *)
(***************************************************************************)
\* the frames of the forecasts made by the loop of dynamicForecasting
ForecastFrames(ret) == AsArray([j \in 1..Len(ret.steps) |-> ret.steps[j].t])

\* C24: the prefix dropped from the returned predDynamic and origValues is
\* exactly the seeds, for every order: the returned entries are the forecasts
\* made, all of them and nothing else
C24_OnlySeedsDropped ==
  (retDynamic.op = "dynamic" /\ ~retDynamic.threw) =>
    /\ retDynamic.predIdx = ForecastFrames(retDynamic)
    /\ Len(retDynamic.predDynamic) = Len(retDynamic.steps)
    /\ Len(retDynamic.origValues) = Len(retDynamic.steps)

\* the same statement restricted to the models of order DropCount, and to
\* test matrices too short for any forecast
SeedsDroppedAtOrderTwo ==
  (/\ retDynamic.op = "dynamic" /\ ~retDynamic.threw
   /\ \/ fc.model.order = DropCount
      \/ Len(fc.testData) <= fc.model.order /\ fc.model.order <= DropCount)
    => /\ retDynamic.predIdx = ForecastFrames(retDynamic)
       /\ Len(retDynamic.predDynamic) = Len(retDynamic.steps)

(***************************************************************************)
(* The design matrix of the VAR model: createLaggedMatrix() called on its  *)
(* own and by fit(), on matrices whose entries tell their positions apart. *)
(***************************************************************************)
\* data[t][v] = (a*t + b*v) mod 3: constant columns for a = 0
DesignData ==
  {<<>>} \cup
  { NumMatrix(AsArray([t \in 1..n |->
       AsArray([v \in 1..nv |-> ((a * t) + (b * v)) % 3])])) :
      n \in 1..MaxObs, nv \in VariableCounts,
      a \in {0, 1}, b \in {1, 2} }

InitDesign ==
  /\ varModel \in { NewVARModel(lags) : lags \in LagChoices }
  /\ fc \in { VarScenario(data) : data \in DesignData }
  /\ call = NoOperation
  /\ model = NoObject
  /\ fitCall = NoCall
  /\ retStatic = NoForecast
  /\ retDynamic = NoForecast
  /\ scalerObj = NoObject
  /\ gom = NoObject
  /\ imported = NoObject

\* model.createLaggedMatrix(data, model.lags); data[0].length throws on an
\* empty matrix (line 26)
CreateLaggedCall ==
  /\ \E r \in { IF Len(fc.data) = 0 THEN Threw(varModel, "TypeError")
                ELSE Returned(varModel,
                              Some(createLaggedMatrix(fc.data, varModel.lags))) } :
       /\ varModel' = r.obj
       /\ call' = VarCall("createLaggedMatrix", fc.data, 0, varModel, r)
  /\ UNCHANGED varRest

\* model.fit(data), Math.random() returning any of the draws
DesignFitCall ==
  /\ \E draws \in DrawsFor(fc.data) :
       \E r \in {VarFit(varModel, fc.data, None, draws)} :
         /\ varModel' = r.obj
         /\ call' = VarFitted(varModel, r)
  /\ UNCHANGED varRest

NextDesign == CreateLaggedCall \/ DesignFitCall

SpecDesign == InitDesign /\ [][NextDesign]_vars

\* the row for JavaScript time t over the matrix data:
\* [1, data[t-1][0..m-1], ..., data[t-L][0..m-1]]
RowForTime(row, data, t, L) ==
  LET m == Len(data[1])
  IN  /\ Len(row) = 1 + (m * L)
      /\ row[1] = NumInt(1)
      /\ \A lag \in 1..L : \A v \in 1..m :
           row[1 + ((lag - 1) * m) + v] = data[(t - lag) + 1][v]

\* the sum over the row for JavaScript time t of row[p] * params[p][eq], the
\* products added one by one as math.multiply adds them: the constant, then
\* every variable at t-1, then every variable at t-2, down to t-L
RECURSIVE RowTimesParams(_, _, _, _, _, _)
RowTimesParams(data, params, t, L, eq, p) ==
  IF p = 1 THEN NumMul(NumInt(1), params[1][eq])
  ELSE NumAdd(RowTimesParams(data, params, t, L, eq, p - 1),
              NumMul(data[(t - (((p - 2) \div Len(data[1])) + 1)) + 1]
                         [((p - 2) % Len(data[1])) + 1],
                     params[p][eq]))

\* C25: createLaggedMatrix on numObs rows of m variables with L lags gives
\* numObs - L rows; the row for time t is the constant 1, then all variables
\* at t-1, then all at t-2, down to t-L, paired with the target row data[t];
\* after fit params has 1 + m*L rows of m columns, and the fitted value of
\* every equation at time t is the product of that same row with the column
\* of the equation in params (for data without a constant column, which fit
\* passes on as it is)
C25_DesignRows ==
  LET L == varModel.lags
      data == fc.data
  IN  /\ (call.op = "createLaggedMatrix" /\ call.outcome = "returned") =>
           LET X == call.value[1].X
               y == call.value[1].y
           IN  /\ Len(X) = Max2(Len(data) - L, 0)
               /\ Len(y) = Len(X)
               /\ \A r \in 1..Len(X) :
                    /\ RowForTime(X[r], data, (r + L) - 1, L)
                    /\ y[r] = data[r + L]
      /\ varModel.params # None =>
           /\ Len(varModel.params[1]) = 1 + (Len(data[1]) * L)
           /\ \A p \in 1..Len(varModel.params[1]) :
                Len(varModel.params[1][p]) = Len(data[1])
           /\ Len(varModel.fitted[1]) = Len(data) - L
           /\ \A r \in 1..Len(varModel.fitted[1]) :
                /\ Len(varModel.fitted[1][r]) = Len(data[1])
                /\ NoConstantColumn(data) =>
                     \A eq \in 1..Len(data[1]) :
                       varModel.fitted[1][r][eq]
                         = RowTimesParams(data, varModel.params[1], (r + L) - 1, L,
                                          eq, 1 + (Len(data[1]) * L))

\* a model of two variables and two lags fitted on data without a constant
\* column, and a call that returned two rows in which a value of the second
\* variable at t-1 differs from the first variable's at t-2
C25_Witness ==
  /\ varModel.params # None
  /\ varModel.lags = 2
  /\ call.op = "createLaggedMatrix" /\ call.outcome = "returned"
  /\ Len(fc.data) = 4 /\ Len(fc.data[1]) = 2
  /\ NoConstantColumn(fc.data)
  /\ fc.data[2][2] # fc.data[1][1]

(***************************************************************************)
(* Specification of the p-values: one t statistic and one df = n - k, and *)
(* the callback of either class applied to them.                           *)
(***************************************************************************)
\* t statistics in tenths, either sign, and the values that are not finite
TenthsOfT == {0, 1, 10, 15, 16, 20, 25, 26, 30, 33, 40, 41, 50}

TStatistics ==
  {Fin(tt, 10) : tt \in TenthsOfT} \cup {Fin(-tt, 10) : tt \in TenthsOfT}
    \cup {NaN, Infinity, NegInfinity}

\* df = n - k
DegreesOfFreedom == {-1, 0, 1, 30, 31, 100}

InitPValue ==
  /\ fc \in { [op |-> "pValue", t |-> t, df |-> df] :
                t \in TStatistics, df \in DegreesOfFreedom }
  /\ call = NoOperation
  /\ model = NoObject
  /\ fitCall = NoCall
  /\ retStatic = NoForecast
  /\ retDynamic = NoForecast
  /\ scalerObj = NoObject
  /\ varModel = NoObject
  /\ gom = NoObject
  /\ imported = NoObject

SarimaxPValueCall ==
  /\ call' = MetricCall("SARIMAX.pValue", SarimaxPValue(fc.t, fc.df))
  /\ UNCHANGED metricsRest

VarPValueCall ==
  /\ call' = MetricCall("VARModel.pValue", VarPValue(fc.t, fc.df))
  /\ UNCHANGED metricsRest

NextPValue == SarimaxPValueCall \/ VarPValueCall

SpecPValue == InitPValue /\ [][NextPValue]_vars

\* the table the specification gives for df <= 30, in millionths
TableOf(absT) ==
  CASE NumLess(NumInt(4), absT) -> 1000
    [] ~NumLess(NumInt(4), absT) /\ NumLess(NumInt(3), absT) -> 10000
    [] ~NumLess(NumInt(3), absT) /\ NumLess(Fin(5, 2), absT) -> 20000
    [] ~NumLess(Fin(5, 2), absT) /\ NumLess(NumInt(2), absT) -> 50000
    [] ~NumLess(NumInt(2), absT) /\ NumLess(Fin(3, 2), absT) -> 100000
    [] ~NumLess(Fin(3, 2), absT) -> 200000

\* the two-sided tail 2 (1 - Phi(|t|)) brought into [0.001, 0.999]
TwoSidedTail(absT) ==
  LET tail == 2 * (Micro - normalCDF(AbsMicro(absT)))
  IN  IF tail > 999000 THEN 999000 ELSE IF tail < 1000 THEN 1000 ELSE tail

\* C26: a p-value depends only on |t| and df = n - k: for df <= 30 it is the
\* table value (> 4: 0.001, > 3: 0.01, > 2.5: 0.02, > 2: 0.05, > 1.5: 0.1,
\* else 0.2), for df > 30 the two-sided normal approximation, and it always
\* lies in [0.001, 0.999]
C26_PValue ==
  call.op \in {"SARIMAX.pValue", "VARModel.pValue"} =>
    LET p == call.value[1]
        absT == NumAbs(fc.t)
    IN  /\ 1000 <= p /\ p <= 999000
        /\ (IsFinite(fc.t) /\ fc.df <= 30) => p = TableOf(absT)
        /\ (IsFinite(fc.t) /\ fc.df > 30) => p = TwoSidedTail(absT)
        /\ p = SarimaxPValue(absT, fc.df)
        /\ p = VarPValue(absT, fc.df)

\* a negative t with df > 30 whose normal tail falls below 0.001, returned as
\* 0.001
C26_Witness ==
  /\ call.op = "SARIMAX.pValue"
  /\ fc.df > 30
  /\ fc.t = Fin(-4, 1)
  /\ call.value[1] = 1000

(***************************************************************************)
(* Reading channels: extractDataFromBVH (after the file is parsed into its *)
(* header channels and frames) and KfGom.extractAnglesMatrix.              *)
(***************************************************************************)
\* channels.findIndex(ch => ch === joint), as a JavaScript index
FindIndex(channels, joint) ==
  IF \E i \in 1..Len(channels) : channels[i] = joint
  THEN (CHOOSE i \in 1..Len(channels) :
          /\ channels[i] = joint
          /\ \A j \in 1..(i - 1) : channels[j] # joint) - 1
  ELSE -1

\* extractDataFromBVH(path, targetJoint, exogJoints) on a file with the given
\* header channels and frames
ExtractDataFromBVH(channels, frames, targetJoint, exogJoints) ==
  IF Len(frames) = 0 THEN Threw(NoObject, "No frames found in BVH file")
  ELSE LET targetIndex == FindIndex(channels, targetJoint)
           exogIndices == AsArray([j \in 1..Len(exogJoints) |->
                             FindIndex(channels, exogJoints[j])])
       IN  IF targetIndex = -1
           THEN Threw(NoObject, "Target joint \"" \o targetJoint \o "\" not found")
           ELSE Returned(NoObject,
                  Some([endog |-> AsArray([f \in 1..Len(frames) |->
                                     frames[f][targetIndex + 1]]),
                        exog |-> AsArray([f \in 1..Len(frames) |->
                                    AsArray([j \in 1..Len(exogIndices) |->
                                       IF exogIndices[j] = -1 THEN NumInt(0)
                                       ELSE frames[f][exogIndices[j] + 1]])])]))

\* an object as its own entries in insertion order
HasKey(object, key) == \E i \in 1..Len(object) : object[i].key = key

ValueOf(object, key) == object[CHOOSE i \in 1..Len(object) : object[i].key = key].value

\* arr[i] of an array: undefined past its end
ElementOrUndefined(arr, i) == IF i \in 1..Len(arr) THEN arr[i] ELSE Undefined

\* the properties every object inherits from Object.prototype; each is a
\* function or an object, which is truthy and holds nothing at an index
InheritedNames ==
  {"constructor", "toString", "toLocaleString", "valueOf", "hasOwnProperty",
   "isPrototypeOf", "propertyIsEnumerable", "__proto__", "__defineGetter__",
   "__defineSetter__", "__lookupGetter__", "__lookupSetter__"}

\* the largest integer key of the objects of this part
MaxIndexKey == 9

\* a key that is the decimal form of an array index: Object.values lists the
\* values of such keys first, in ascending order of the index
IsIndexKey(key) == \E n \in 0..MaxIndexKey : ToString(n) = key

KeyIndex(key) == CHOOSE n \in 0..MaxIndexKey : ToString(n) = key

\* the position of the entry that Object.values(object) lists first
FirstListed(object) ==
  IF \E i \in 1..Len(object) : IsIndexKey(object[i].key)
  THEN CHOOSE i \in 1..Len(object) :
         /\ IsIndexKey(object[i].key)
         /\ \A j \in 1..Len(object) :
              IsIndexKey(object[j].key) => KeyIndex(object[i].key) <= KeyIndex(object[j].key)
  ELSE 1

\* eulerAngles[variable] ? eulerAngles[variable][frame] : 0
AngleAt(eulerAngles, variable, frame) ==
  IF HasKey(eulerAngles, variable)
  THEN ElementOrUndefined(ValueOf(eulerAngles, variable), frame)
  ELSE IF variable \in InheritedNames THEN Undefined
  ELSE NumInt(0)

\* extractAnglesMatrix(eulerAngles)
extractAnglesMatrix(g, eulerAngles) ==
  IF Len(eulerAngles) = 0
  THEN \* Object.values(eulerAngles)[0] is undefined
       Threw(g, "TypeError")
  ELSE Returned(g,
         Some(AsArray([frame \in 1..Len(eulerAngles[FirstListed(eulerAngles)].value) |->
                AsArray([v \in 1..Len(g.variables) |->
                   AngleAt(eulerAngles, g.variables[v], frame)])])))

ChannelNames == {"a", "b", "c"}

\* the channels of a header
Headers ==
  {<<>>, <<"a">>, <<"b">>, <<"a", "b">>, <<"b", "c">>, <<"a", "b", "c">>, <<"b", "1">>}

\* frames of nonzero values, one per channel
FramesOf(channels, n) ==
  AsArray([f \in 1..n |-> AsArray([c \in 1..Len(channels) |-> NumInt((10 * f) + c)])])

RequestedJoints ==
  {<<a>> : a \in ChannelNames}
    \cup UNION {{<<a, b>> : b \in ChannelNames \ {a}} : a \in ChannelNames}
    \cup {<<"toString", "a">>, <<"constructor">>, <<"b", "1">>}

\* the same file as the object doGom accepts: one series per channel
AnglesOf(channels, frames) ==
  AsArray([c \in 1..Len(channels) |->
     [key |-> channels[c],
      value |-> AsArray([f \in 1..Len(frames) |-> frames[f][c]])]])

\* the object with its last series cut to one frame
LastSeriesCut(angles) ==
  AsArray([c \in 1..Len(angles) |->
     IF c = Len(angles) /\ Len(angles[c].value) > 1
     THEN [angles[c] EXCEPT !.value = SubSeq(angles[c].value, 1, 1)]
     ELSE angles[c]])

ExtractInput(channels, n, target, exogJoints, cut) ==
  [op |-> "extract", channels |-> channels, frames |-> FramesOf(channels, n),
   angles |-> IF cut THEN LastSeriesCut(AnglesOf(channels, FramesOf(channels, n)))
              ELSE AnglesOf(channels, FramesOf(channels, n)),
   targetJoint |-> target, exogJoints |-> exogJoints]

InitExtract ==
  /\ fc \in { ExtractInput(channels, n, target, exogJoints, cut) :
                channels \in Headers, n \in 0..2, target \in ChannelNames,
                exogJoints \in RequestedJoints, cut \in BOOLEAN }
  /\ gom = NewKfGom(fc.exogJoints)
  /\ call = NoOperation
  /\ imported = NoObject
  /\ model = NoObject
  /\ fitCall = NoCall
  /\ retStatic = NoForecast
  /\ retDynamic = NoForecast
  /\ scalerObj = NoObject
  /\ varModel = NoObject

\* extractDataFromBVH(path, targetJoint, exogJoints)
ExtractDataCall ==
  /\ \E r \in {ExtractDataFromBVH(fc.channels, fc.frames, fc.targetJoint, fc.exogJoints)} :
       call' = GomCall("extractDataFromBVH", NoObject, r)
  /\ UNCHANGED <<gom, imported, gomRest>>

\* g.extractAnglesMatrix(eulerAngles)
ExtractAnglesCall ==
  /\ \E r \in {extractAnglesMatrix(gom, fc.angles)} :
       /\ gom' = r.obj
       /\ call' = GomCall("extractAnglesMatrix", gom, r)
  /\ UNCHANGED <<imported, gomRest>>

NextExtract == ExtractDataCall \/ ExtractAnglesCall

SpecExtract == InitExtract /\ [][NextExtract]_vars

\* a requested exogenous joint or variable that the input does not hold
SomeChannelMissing ==
  \E j \in 1..Len(fc.exogJoints) : FindIndex(fc.channels, fc.exogJoints[j]) = -1

\* C27: when a requested channel is missing, an exogenous joint from the
\* header or a variable from the angles object, the operation ends in an error;
\* no value is returned with a default in its place
C27_MissingChannelRejected ==
  (call.op \in {"extractDataFromBVH", "extractAnglesMatrix"} /\ SomeChannelMissing)
    => call.outcome = "threw"

\* what the two operations do: a missing target joint is an error; a missing
\* exogenous joint is a column of zeros; a missing variable is a column of
\* zeros, or of undefined when Object.prototype holds a property of its name
MissingChannelBecomesZero ==
  /\ (call.op = "extractDataFromBVH" /\ FindIndex(fc.channels, fc.targetJoint) = -1)
       => call.outcome = "threw"
  /\ (call.op = "extractDataFromBVH" /\ call.outcome = "returned") =>
       \A f \in 1..Len(call.value[1].exog) : \A j \in 1..Len(fc.exogJoints) :
         call.value[1].exog[f][j] =
           IF FindIndex(fc.channels, fc.exogJoints[j]) = -1 THEN NumInt(0)
           ELSE fc.frames[f][FindIndex(fc.channels, fc.exogJoints[j]) + 1]
  /\ (call.op = "extractAnglesMatrix" /\ call.outcome = "returned") =>
       \A f \in 1..Len(call.value[1]) : \A j \in 1..Len(fc.exogJoints) :
         FindIndex(fc.channels, fc.exogJoints[j]) = -1 =>
           call.value[1][f][j] =
             IF fc.exogJoints[j] \in InheritedNames THEN Undefined ELSE NumInt(0)

\* the number of rows is the length of the series Object.values lists first:
\* that of the integer key when the object has one
RowsFollowFirstListed ==
  (call.op = "extractAnglesMatrix" /\ call.outcome = "returned") =>
    Len(call.value[1]) = Len(fc.angles[FirstListed(fc.angles)].value)

(***************************************************************************)
(* The end-to-end scripts: src/main.js (script "main.js"), the main section *)
(* of src/sarimax.js (script "sarimax.js") and the prediction workflow     *)
(* (script "prediction").  A script reads files that hold the target and   *)
(* some of its exogenous joints, builds one matrix per file, normalizes,   *)
(* trains its models and calls the forecasting strategies.  The scalers    *)
(* and the models are the objects above; a forecasting call is kept as the *)
(* names of the arguments handed to it.                                    *)
(***************************************************************************)
\* the entry of that name in a list of named values
Named(list, name) == list[CHOOSE i \in 1..Len(list) : list[i].name = name]

\* transform(data) on the scaler that fit returned, unless fit threw
TransformFitted(fitted, data) ==
  IF fitted.outcome = "threw" THEN fitted ELSE ScalerTransform(fitted.obj, data)

\* fitTransform(data) = this.fit(data).transform(data)
FitTransform(s, data) == TransformFitted(StandardScalerFit(s, data), data)

\* the number of exogenous joints a script asks extractDataFromBVH for: all
\* the other angles in src/main.js, four in the main section of src/sarimax.js
\* and in the prediction workflow
ExogCount(script) == IF script = "main.js" THEN 26 ELSE 4

\* the matrix [endog, ...exog] a script builds from a file that holds the
\* given channels, the target first: a joint the file does not hold is a
\* column of zeros
FileMatrix(channels, script) ==
  NumMatrix(AsArray([f \in 1..Len(channels[1]) |->
     AsArray([c \in 1..(1 + ExogCount(script)) |->
        IF c <= Len(channels) THEN channels[c][f] ELSE 0])]))

\* files of six frames that hold the target and one exogenous joint
NarrowFiles ==
  {<<<<0, 0, 2, 2, 0, 2>>, <<0, 2, 2, 0, 2, 0>>>>,
   <<<<0, 2, 2, 0, 2, 0>>, <<2, 0, 0, 0, 2, 2>>>>,
   <<<<2, 0, 0, 0, 2, 2>>, <<2, 2, 2, 2, 2, 2>>>>}

\* files of ten frames that hold the target and four exogenous joints, the
\* columns independent
FullFiles ==
  {<<<<2, 2, 2, 0, 0, 0, 2, 0, 0, 2>>, <<2, 0, 0, 2, 2, 0, 2, 0, 0, 2>>,
     <<0, 2, 2, 2, 2, 0, 0, 0, 0, 2>>, <<2, 0, 0, 2, 2, 2, 2, 0, 0, 0>>,
     <<2, 0, 0, 2, 0, 2, 2, 0, 0, 2>>>>,
   <<<<0, 0, 0, 2, 2, 2, 0, 2, 0, 2>>, <<2, 0, 0, 2, 2, 0, 2, 0, 2, 0>>,
     <<0, 0, 0, 0, 2, 2, 2, 0, 2, 2>>, <<2, 2, 2, 0, 0, 0, 0, 2, 0, 2>>,
     <<2, 2, 0, 0, 2, 2, 0, 2, 0, 0>>>>}

\* a file of ten frames in which one exogenous joint does not move
StillJointFile ==
  <<<<2, 2, 2, 0, 0, 0, 2, 0, 0, 2>>, <<2, 0, 0, 2, 2, 0, 2, 0, 0, 2>>,
    <<2, 2, 2, 2, 2, 2, 2, 2, 2, 2>>, <<2, 0, 0, 2, 2, 2, 2, 0, 0, 0>>,
    <<2, 0, 0, 2, 0, 2, 2, 0, 0, 2>>>>

\* the frame of the manual prediction of the prediction workflow
FrameIndex == 50

\* a file with frames past frameIndex: channel c alternates in runs of c frames
LongFile ==
  AsArray([c \in 1..5 |->
     AsArray([f \in 1..(FrameIndex + 2) |-> 2 * (((f - 1) \div c) % 2)])])

TrainFiles == NarrowFiles \cup FullFiles \cup {StillJointFile}

TestFiles == NarrowFiles \cup FullFiles

\* the second motion's files
GlassingTrainFile ==
  <<<<0, 2, 2, 2, 2, 0, 0, 0, 0, 2>>, <<0, 2, 2, 0, 2, 0, 0, 0, 2, 2>>,
    <<2, 0, 2, 0, 0, 0, 2, 2, 0, 2>>, <<2, 2, 0, 2, 0, 0, 2, 0, 2, 0>>,
    <<0, 0, 2, 2, 0, 0, 2, 2, 0, 2>>>>

GlassingTestFile == <<<<0, 2, 0, 2, 2, 0>>, <<0, 2, 2, 0, 0, 2>>>>

PipelineStart(script, data) ==
  [op |-> "pipeline", script |-> script, pc |-> "normalize", raw |-> data,
   scalers |-> <<>>, fits |-> <<>>, normalized |-> <<>>, models |-> <<>>,
   forecasts |-> <<>>]

\* the matrices of the two main scripts
MainStart(script, train, test) ==
  PipelineStart(script,
    <<[name |-> "trainDataB", value |-> FileMatrix(train, script)],
      [name |-> "testDataB", value |-> FileMatrix(test, script)],
      [name |-> "trainDataG", value |-> FileMatrix(GlassingTrainFile, script)],
      [name |-> "testDataG", value |-> FileMatrix(GlassingTestFile, script)]>>)

\* the matrices of the prediction workflow; glassData is there when the
\* glassblowing file can be read
PredictionStart(train, pred, withGlass) ==
  PipelineStart("prediction",
    <<[name |-> "trainData", value |-> FileMatrix(train, "prediction")],
      [name |-> "predData", value |-> FileMatrix(pred, "prediction")]>>
    \o (IF withGlass
        THEN <<[name |-> "glassData", value |-> FileMatrix(LongFile, "prediction")]>>
        ELSE <<>>))

InitPipeline ==
  /\ call \in { MainStart(script, train, test) :
                  script \in {"main.js", "sarimax.js"},
                  train \in TrainFiles, test \in TestFiles }
              \cup { PredictionStart(train, pred, withGlass) :
                       train \in TrainFiles, pred \in TestFiles \cup {LongFile},
                       withGlass \in BOOLEAN }
  /\ fc = NoForecast
  /\ scalerObj = NoObject
  /\ model = NoObject
  /\ fitCall = NoCall
  /\ retStatic = NoForecast
  /\ retDynamic = NoForecast
  /\ varModel = NoObject
  /\ gom = NoObject
  /\ imported = NoObject

pipelineRest ==
  <<model, fitCall, fc, retStatic, retDynamic, scalerObj, varModel, gom, imported>>

\* one `const out = scaler.fitTransform(raw)` on a new StandardScaler, added
\* to the state p of the script
WithFitTransform(p, scaler, rawName, out) ==
  Only({ [p EXCEPT !.scalers = Append(@, [name |-> scaler, obj |-> r.obj]),
                   !.fits = Append(@, [name |-> scaler, data |-> rawName]),
                   !.normalized = Append(@, [name |-> out, value |-> r.value[1],
                                             by |-> scaler])] :
         r \in {FitTransform(NewStandardScaler, Named(p.raw, rawName).value)} })

\* main.js lines 112-120: four scalers, each fitTransform on its own matrix
MainNormalize ==
  /\ call.op = "pipeline" /\ call.script \in {"main.js", "sarimax.js"}
  /\ call.pc = "normalize"
  /\ call' = [WithFitTransform(
                WithFitTransform(
                  WithFitTransform(
                    WithFitTransform(call, "scalerTrainB", "trainDataB", "dataTrainB"),
                    "scalerTestB", "testDataB", "dataTestB"),
                  "scalerTrainG", "trainDataG", "dataTrainG"),
                "scalerTestG", "testDataG", "dataTestG")
              EXCEPT !.pc = "train"]
  /\ UNCHANGED pipelineRest

\* prediction workflow lines 40-41: one scaler, fitTransform on the training
\* matrix
PredictionNormalize ==
  /\ call.op = "pipeline" /\ call.script = "prediction" /\ call.pc = "normalize"
  /\ call' = [WithFitTransform(call, "scaler", "trainData", "normalizedTrainData")
              EXCEPT !.pc = "train"]
  /\ UNCHANGED pipelineRest

\* the integer a normalized entry is: the files of this part normalize to
\* -1, 0 and 1
IntegerOf(a) == a.n

\* the JavaScript indices 1..n: indExo of a script whose target is column 0
IndicesFromOne(n) == AsArray([i \in 1..n |-> i])

\* the models of a script, in the order it trains them, each with the matrix
\* it is trained on and its indEnd and indExo
ScriptModels(script) ==
  IF script = "main.js"
  THEN <<[name |-> "modelB", data |-> "dataTrainB", indEnd |-> 0,
          indExo |-> IndicesFromOne(ExogCount(script))],
         [name |-> "modelG", data |-> "dataTrainG", indEnd |-> 0,
          indExo |-> IndicesFromOne(ExogCount(script))]>>
  ELSE IF script = "sarimax.js"
  THEN <<[name |-> "modelB", data |-> "dataTrainB", indEnd |-> 0,
          indExo |-> <<1, 2, 3, 4>>],
         [name |-> "modelG", data |-> "dataTrainG", indEnd |-> 3,
          indExo |-> <<0, 1, 2, 4>>]>>
  ELSE <<[name |-> "model", data |-> "normalizedTrainData", indEnd |-> 0,
          indExo |-> <<1, 2, 3, 4>>]>>

\* new SARIMAX(endog, exog, order) with order = 2 on a normalized training
\* matrix: endog is column indEnd, exog the columns indExo
ScriptModel(normalized, indEnd, indExo) ==
  Constructor(AsArray([f \in 1..Len(normalized) |-> IntegerOf(normalized[f][indEnd + 1])]),
              AsArray([f \in 1..Len(normalized) |->
                 AsArray([j \in 1..Len(indExo) |->
                    IntegerOf(normalized[f][indExo[j] + 1])])]), 2)

\* how fit() ends on the matrix XTX of a script's model: math.inv(XTX) throws
\* "Cannot calculate inverse, determinant is zero" for a column of zeros,
\* which the columns of the absent and of the still joints are
ScriptFitOutcomes(XTX, X) ==
  IF HasZeroColumn(XTX) \/ HasDuplicateColumns(XTX) THEN {"threw"}
  ELSE { IF throws THEN "threw" ELSE "ok" : throws \in InvThrows(XTX, DetXTX(X)) }

\* how model.fit() can end for the i-th model of the script
TrainingOutcomes(p, i) ==
  Only({ ScriptFitOutcomes(Gram(X), X) :
         X \in { DesignX(m.endog, m.exog, m.order) :
                 m \in { ScriptModel(Named(p.normalized, spec.data).value,
                                     spec.indEnd, spec.indExo) :
                         spec \in {ScriptModels(p.script)[i]} } } })

\* the models are built and fitted one after the other; a fit() that throws
\* ends the script, which catches nothing
TrainModels ==
  /\ call.op = "pipeline" /\ call.pc = "train"
  /\ LET models == ScriptModels(call.script)
     IN  \E trained \in 0..Len(models) :
           /\ \A i \in 1..trained : "ok" \in TrainingOutcomes(call, i)
           /\ trained < Len(models) => "threw" \in TrainingOutcomes(call, trained + 1)
           /\ call' = [call EXCEPT
                         !.models = SubSeq(models, 1, trained),
                         !.pc = IF trained < Len(models) THEN "failed"
                                ELSE IF call.script = "prediction" THEN "transform"
                                ELSE "static"]
  /\ UNCHANGED pipelineRest

\* the matrix the prediction workflow normalizes at a step, and the name of
\* the result
TransformOf(pc) ==
  IF pc = "transform" THEN [data |-> "predData", out |-> "normalizedPredData"]
  ELSE [data |-> "glassData", out |-> "normalizedGlassData"]

\* prediction workflow line 84, normalizedPredData = scaler.transform(predData),
\* and line 215, normalizedGlassData = scaler.transform(glassData)
PredictionTransform ==
  /\ call.op = "pipeline" /\ call.script = "prediction"
  /\ call.pc \in {"transform", "glass"}
  /\ \E r \in {ScalerTransform(Named(call.scalers, "scaler").obj,
                               Named(call.raw, TransformOf(call.pc).data).value)} :
       call' = [call EXCEPT !.normalized =
                               Append(@, [name |-> TransformOf(call.pc).out,
                                          value |-> r.value[1], by |-> "scaler"]),
                            !.pc = IF call.pc = "transform" THEN "static"
                                   ELSE "glassStatic"]
  /\ UNCHANGED pipelineRest

\* the arguments of the forecasting calls a script makes at a step
ForecastCalls(script, step) ==
  IF script \in {"main.js", "sarimax.js"}
  THEN <<[strategy |-> step, model |-> "modelB", testData |-> "dataTestB",
          scaler |-> "scalerTestB"],
         [strategy |-> step, model |-> "modelG", testData |-> "dataTestG",
          scaler |-> "scalerTestG"]>>
  ELSE IF step = "glassStatic"
  THEN <<[strategy |-> "static", model |-> "model",
          testData |-> "normalizedGlassData", scaler |-> "scaler"]>>
  ELSE <<[strategy |-> step, model |-> "model", testData |-> "normalizedPredData",
          scaler |-> "scaler"]>>

\* staticForecasting(model, testData, indEnd, indExo, scaler, indEnd); the
\* prediction workflow calls it once more on the glassblowing matrix, in a
\* try block that ends the script either way
PipelineStatic ==
  /\ call.op = "pipeline" /\ call.pc \in {"static", "glassStatic"}
  /\ call' = [call EXCEPT !.forecasts = @ \o ForecastCalls(call.script, call.pc),
                          !.pc = IF call.pc = "static" THEN "dynamic" ELSE "done"]
  /\ UNCHANGED pipelineRest

\* dynamicForecasting(model, testData, indEnd, indExo, scaler, indEnd)
PipelineDynamic ==
  /\ call.op = "pipeline" /\ call.pc = "dynamic"
  /\ call' = [call EXCEPT !.forecasts = @ \o ForecastCalls(call.script, "dynamic"),
                          !.pc = IF call.script = "prediction" THEN "manual"
                                 ELSE "done"]
  /\ UNCHANGED pipelineRest

\* prediction workflow lines 137-156: normalizedPredData[frameIndex].slice(1)
\* throws a TypeError when the file has no frame of that index; after it the
\* glassblowing file is read if it is there
PredictionManual ==
  /\ call.op = "pipeline" /\ call.script = "prediction" /\ call.pc = "manual"
  /\ call' = [call EXCEPT
                !.pc = IF Len(Named(call.normalized, "normalizedPredData").value)
                          <= FrameIndex
                       THEN "failed"
                       ELSE IF \E i \in 1..Len(call.raw) : call.raw[i].name = "glassData"
                       THEN "glass"
                       ELSE "done"]
  /\ UNCHANGED pipelineRest

NextPipeline ==
  \/ MainNormalize
  \/ PredictionNormalize
  \/ TrainModels
  \/ PredictionTransform
  \/ PipelineStatic
  \/ PipelineDynamic
  \/ PredictionManual

SpecPipeline == InitPipeline /\ [][NextPipeline]_vars

\* the raw matrices a script trains on
TrainingSets == {"trainDataB", "trainDataG", "trainData"}

\* the raw matrix the model of a forecasting call was trained on
TrainingSetOf(f) ==
  LET trainedOn == Named(call.models, f.model).data
  IN  Named(call.fits, Named(call.normalized, trainedOn).by).data

\* the forecasting call f uses the scaler fitted on its model's training
\* matrix, for the test matrix and for the denormalization
UsesTrainingScaler(f) ==
  LET test == Named(call.normalized, f.testData)
      fitted == StandardScalerFit(NewStandardScaler,
                                  Named(call.raw, TrainingSetOf(f)).value).obj
  IN  /\ test.by = f.scaler
      /\ Named(call.fits, f.scaler).data = TrainingSetOf(f)
      /\ Named(call.scalers, f.scaler).obj = fitted

\* C28: in every run of a script a scaler is fitted on training data only: the
\* test matrix is normalized by the scaler fitted on the training matrix, that
\* same scaler is handed to the forecasting call, and no scaler is fitted on
\* test data
C28_ScalerFitOnTrainingOnly ==
  call.op = "pipeline" =>
    /\ \A i \in 1..Len(call.fits) : call.fits[i].data \in TrainingSets
    /\ \A i \in 1..Len(call.forecasts) : UsesTrainingScaler(call.forecasts[i])

\* the prediction workflow alone keeps to it
PredictionWorkflowReusesScaler ==
  (call.op = "pipeline" /\ call.script = "prediction") =>
    /\ \A i \in 1..Len(call.fits) : call.fits[i].data \in TrainingSets
    /\ \A i \in 1..Len(call.forecasts) : UsesTrainingScaler(call.forecasts[i])
    /\ call.pc = "done" =>
         Len(call.forecasts) =
           IF \E i \in 1..Len(call.raw) : call.raw[i].name = "glassData" THEN 3 ELSE 2

(***************************************************************************)
(* The objects side by side: a scaler, a trained SARIMAX model, a VAR      *)
(* model and a second SARIMAX instance, with the matrices of the caller in *)
(* fc.  Every operation is called on the caller's matrices.                *)
(***************************************************************************)
\* the trained SARIMAX models of order 1
FrameModels == { m \in PredictModels : m.trained /\ m.order = 1 }

\* a VAR model before fit() and one restored with the parameters 1 and -1
FrameVarModels ==
  {NewVARModel(1)}
    \cup { m \in RestoredModels :
             m.params = Some(<<<<NumInt(1)>>, <<NumInt(-1)>>>>) }

\* the matrices of the caller: the matrix the scaler is fitted on and the one
\* it is applied to, the test matrix and the scaler for the forecasting
\* strategies, the observations for the VAR model
FrameMatrices(M, d, data) ==
  [op |-> "call", fitMatrix |-> NumMatrix(<<<<1, 1>>, <<5, 3>>>>),
   matrix |-> NumMatrix(M), testData |-> d, indEnd |-> 0,
   indExo |-> <<1>>, scaler |-> StandardScaler(<<1, 0>>, <<2, 1>>),
   targetAngleIndex |-> 0, data |-> NumMatrix(data)]

FrameScenarios ==
  { FrameMatrices(<<<<1, 3>>, <<3, 3>>>>, <<<<1, 0>>, <<2, 1>>, <<0, 1>>>>,
                  <<<<0>>, <<1>>, <<1>>>>),
    FrameMatrices(<<<<0>>, <<2>>>>, <<<<1, 1>>>>, <<<<1>>>>) }

InitFrame ==
  /\ scalerObj \in {NewStandardScaler, NewMinMaxScaler}
  /\ model \in FrameModels
  /\ varModel \in FrameVarModels
  /\ imported = Constructor(<<1, 2, 4>>, <<<<0>>, <<1>>, <<0>>>>, 1)
  /\ fc \in FrameScenarios
  /\ call = NoOperation
  /\ fitCall = NoCall
  /\ retStatic = NoForecast
  /\ retDynamic = NoForecast
  /\ gom = NoObject

FrameCall(op, r) == [op |-> op, outcome |-> r.outcome, error |-> r.error, value |-> r.value]

\* a call with the arrays it was handed as it leaves them: r is what the call
\* does to the object it is made on, args the arrays after it
Handed(r, args) == [r |-> r, args |-> args]

\* the model after the calls of apply(...).getPrediction() of the first j
\* steps of a forecasting loop, each made on the model the one before left
RECURSIVE ModelAfterSteps(_, _, _)
ModelAfterSteps(m, steps, j) ==
  IF j = 0 THEN m
  ELSE GetPrediction(ModelAfterSteps(m, steps, j - 1),
                     JsSliceLast(steps[j].input, m.order),
                     <<JsSlice(steps[j].input, 0, Len(steps[j].input) - m.order)>>).obj

\* a forecasting strategy with the model, the test matrix, the column
\* indices and the scaler it was handed as it leaves them.  The strategy
\* reads testData and indExo by map into endoData and exogData, pushes to
\* arrays of its own, calls apply(...).getPrediction() on the model and reads
\* scaler.std and scaler.mean (lines 470-538)
ForecastHanded(ret, m, testData, indExo, scaler) ==
  [ret |-> ret, model |-> ModelAfterSteps(m, ret.steps, Len(ret.steps)),
   args |-> <<testData, indExo, scaler>>]

\* the scenario with the arrays of the caller as a forecasting call left them
AfterForecast(f, args) ==
  [f EXCEPT !.testData = args[1], !.indExo = args[2], !.scaler = args[3]]

frameForecasts == <<retStatic, retDynamic, fitCall, gom>>

\* scaler.fit(fitMatrix): math.mean, math.std, math.min and math.max read the
\* matrix and build their results (lines 14-22, 58-75)
FrameScalerFit ==
  /\ \E h \in {Handed(ScalerFit(scalerObj, fc.fitMatrix), fc.fitMatrix)} :
       /\ scalerObj' = h.r.obj
       /\ call' = FrameCall("scaler.fit", h.r)
       /\ fc' = [fc EXCEPT !.fitMatrix = h.args]
  /\ UNCHANGED <<model, varModel, imported, frameForecasts>>

\* scaler.transform(matrix): data.map and row.map build the rows of the
\* result (lines 27-34, 81-88)
FrameTransform ==
  /\ \E h \in {Handed(ScalerTransform(scalerObj, fc.matrix), fc.matrix)} :
       /\ scalerObj' = h.r.obj
       /\ call' = FrameCall("scaler.transform", h.r)
       /\ fc' = [fc EXCEPT !.matrix = h.args]
  /\ UNCHANGED <<model, varModel, imported, frameForecasts>>

\* scaler.inverseTransform(matrix): data.map and row.map build the rows of
\* the result (lines 39-46, 93-102)
FrameInverseTransform ==
  /\ \E h \in {Handed(ScalerInverseTransform(scalerObj, fc.matrix), fc.matrix)} :
       /\ scalerObj' = h.r.obj
       /\ call' = FrameCall("scaler.inverseTransform", h.r)
       /\ fc' = [fc EXCEPT !.matrix = h.args]
  /\ UNCHANGED <<model, varModel, imported, frameForecasts>>

\* the test matrix with its columns replaced by the arrays endogData and
\* exogData, which the caller took from them
WithColumns(testData, endogData, exogData) ==
  AsArray([t \in 1..Len(testData) |-> <<endogData[t]>> \o exogData[t]])

\* the arrays endogData and exogData a caller takes from the columns of the
\* test matrix
EndogExog(testData) ==
  <<Column(testData, 1), AsArray([t \in 1..Len(testData) |-> <<testData[t][2]>>])>>

\* model.apply(endogData, exogData).getPrediction() on the columns of the
\* test matrix: the arrays are read by slice and spread into the input of
\* math.dot (lines 270-289)
FrameApply ==
  /\ \E a \in {EndogExog(fc.testData)} :
     \E h \in {Handed(GetPrediction(model, a[1], a[2]), a)} :
       /\ model' = h.r.obj
       /\ call' = FrameCall("SARIMAX.apply", h.r)
       /\ fc' = [fc EXCEPT !.testData = WithColumns(@, h.args[1], h.args[2])]
  /\ UNCHANGED <<scalerObj, varModel, imported, frameForecasts>>

\* model.predictNext(lastEndog, nextExog) on the first row of the test
\* matrix: the arrays are spread into the input of math.dot (lines 292-302)
FramePredictNext ==
  /\ \E a \in {<<<<fc.testData[1][1]>>, <<fc.testData[1][2]>>>>} :
     \E h \in {Handed(PredictNext(model, a[1], a[2]), a)} :
       /\ model' = h.r.obj
       /\ call' = FrameCall("SARIMAX.predictNext", h.r)
       /\ fc' = [fc EXCEPT !.testData[1] = h.args[1] \o h.args[2]]
  /\ UNCHANGED <<scalerObj, varModel, imported, frameForecasts>>

\* model.summary()
FrameSummary ==
  /\ \E r \in {Summary(model)} :
       /\ model' = r.obj
       /\ call' = FrameCall("SARIMAX.summary", r)
  /\ UNCHANGED <<scalerObj, varModel, imported, fc, frameForecasts>>

\* other.fit() on the second SARIMAX instance
FrameSarimaxFit ==
  /\ \E r \in {FitRun(imported)} :
       /\ imported' = r.model
       /\ call' = [op |-> "SARIMAX.fit", outcome |-> r.outcome, error |-> "",
                   value |-> None]
  /\ UNCHANGED <<scalerObj, model, varModel, fc, frameForecasts>>

\* varModel.fit(data), Math.random() returning any of the draws:
\* addNoiseToConstantColumns copies every row and adds the noise to the
\* copies (lines 61, 73), createLaggedMatrix pushes copies of the rows
\* (line 49)
FrameVarFit ==
  /\ \E draws \in DrawsFor(fc.data) :
       \E h \in {Handed(VarFit(varModel, fc.data, None, draws), <<fc.data>>)} :
         /\ varModel' = h.r.obj
         /\ call' = [op |-> "VARModel.fit", outcome |-> h.r.outcome,
                     error |-> h.r.error, value |-> None]
         /\ fc' = [fc EXCEPT !.data = h.args[1]]
  /\ UNCHANGED <<scalerObj, model, imported, frameForecasts>>

\* varModel.predict(data, steps): data is what predict() itself reports of
\* it
FrameVarPredict ==
  /\ \E steps \in 1..2 :
       \E h \in { Handed(r, <<IF r.outcome = "returned" THEN r.value[1].data
                               ELSE fc.data>>) :
                  r \in {VarPredict(varModel, fc.data, steps)} } :
         /\ varModel' = h.r.obj
         /\ call' = [op |-> "VARModel.predict", outcome |-> h.r.outcome,
                     error |-> h.r.error,
                     value |-> IF h.r.outcome = "returned"
                               THEN Some(h.r.value[1].predictions) ELSE None]
         /\ fc' = [fc EXCEPT !.data = h.args[1]]
  /\ UNCHANGED <<scalerObj, model, imported, frameForecasts>>

\* staticForecasting(model, testData, indEnd, indExo, scaler, targetAngleIndex)
FrameStatic ==
  /\ \E h \in {ForecastHanded(StaticForecasting(model, fc.testData, fc.indEnd,
                                                fc.indExo, fc.scaler,
                                                fc.targetAngleIndex),
                              model, fc.testData, fc.indExo, fc.scaler)} :
       /\ retStatic' = h.ret
       /\ model' = h.model
       /\ fc' = AfterForecast(fc, h.args)
  /\ call' = [op |-> "staticForecasting", outcome |-> "returned", error |-> "",
              value |-> None]
  /\ UNCHANGED <<scalerObj, varModel, imported, retDynamic, fitCall, gom>>

\* dynamicForecasting(model, testData, indEnd, indExo, scaler, targetAngleIndex)
FrameDynamic ==
  /\ \E h \in {ForecastHanded(DynamicForecasting(model, fc.testData, fc.indEnd,
                                                 fc.indExo, fc.scaler,
                                                 fc.targetAngleIndex),
                              model, fc.testData, fc.indExo, fc.scaler)} :
       /\ retDynamic' = h.ret
       /\ model' = h.model
       /\ fc' = AfterForecast(fc, h.args)
  /\ call' = [op |-> "dynamicForecasting", outcome |-> "returned", error |-> "",
              value |-> None]
  /\ UNCHANGED <<scalerObj, varModel, imported, retStatic, fitCall, gom>>

NextFrame ==
  \/ FrameScalerFit
  \/ FrameTransform
  \/ FrameInverseTransform
  \/ FrameApply
  \/ FramePredictNext
  \/ FrameSummary
  \/ FrameSarimaxFit
  \/ FrameVarFit
  \/ FrameVarPredict
  \/ FrameStatic
  \/ FrameDynamic

SpecFrame == InitFrame /\ [][NextFrame]_vars

\* the object each fit is called on
FitTargets ==
  [op \in {"scaler.fit", "SARIMAX.fit", "VARModel.fit"} |->
     CASE op = "scaler.fit" -> "scalerObj"
       [] op = "SARIMAX.fit" -> "imported"
       [] op = "VARModel.fit" -> "varModel"]

\* the step leaves the object of that name as it was
Kept(name) ==
  CASE name = "scalerObj" -> scalerObj' = scalerObj
    [] name = "model" -> model' = model
    [] name = "varModel" -> varModel' = varModel
    [] name = "imported" -> imported' = imported

\* what one call may change: a fit the object it is called on, any other
\* operation no object; no call changes the matrices of the caller
OnlyFitMutates ==
  /\ fc' = fc
  /\ \A name \in {"scalerObj", "model", "varModel", "imported"} :
       \/ Kept(name)
       \/ call'.op \in DOMAIN FitTargets /\ FitTargets[call'.op] = name

\* C29: only fit changes the state of a model or a scaler: transform and
\* inverseTransform, apply, predictNext and summary, VARModel.predict and the
\* two forecasting strategies leave the scaler's parameters, the models'
\* coefficients and statistics and the caller's matrices as they were, and a
\* fit changes no other object than its own
C29_OnlyFitMutates == [][OnlyFitMutates]_vars

\* fitted objects on which operations other than fit have returned
C29_Witness ==
  /\ ~ScalerNotFitted(scalerObj)
  /\ varModel.trained
  /\ imported.trained
  /\ call.op = "scaler.transform" /\ call.outcome = "returned"
  /\ retStatic.op = "static" /\ ~retStatic.threw /\ Len(retStatic.predStatic) > 0
  /\ retDynamic.op = "dynamic"

(***************************************************************************)
(* predAngCoef against the VAR model's one-step prediction, on instances   *)
(* with the default coefficient labels and on one constructed with labels  *)
(* of its own, for the matrices of training and for other ones.            *)
(***************************************************************************)
\* new KfGom(["a"], ["c", "a1", "a2"])
RelabelledGom == [NewKfGom(<<"a">>) EXCEPT !.coefLabels = <<"c", "a1", "a2">>]

CoefInstances == { NewKfGom(variables) : variables \in GomVariables } \cup {RelabelledGom}

\* the matrices doGom() is given in one scenario, for an instance of nv
\* variables, each with one column per variable
CoefData(nv) ==
  IF nv = 1
  THEN { {StepFrames(GomLags + 3), AlternatingFrames(GomLags + 2)},
         {Frames(MaxFrames - 2, 1)} }
  ELSE { {Frames(MaxFrames, 2)} }

\* a matrix with an entry that is not finite
InfiniteFrames(nv) ==
  AsArray([t \in 1..(GomLags + 1) |->
     AsArray([v \in 1..nv |-> IF t = 1 /\ v = 1 THEN Infinity ELSE NumInt(0)])])

\* the matrices predAngCoef() is given: those of training, other finite ones
\* of one or two columns, and one that is not finite
CoefInputs(nv) == GomInputs \cup {InfiniteFrames(nv)}

InitCoef ==
  /\ gom \in CoefInstances
  /\ imported = NoObject
  /\ fc \in { GomScenario(matrices) : matrices \in CoefData(Len(gom.variables)) }
  /\ call = NoOperation
  /\ model = NoObject
  /\ fitCall = NoCall
  /\ retStatic = NoForecast
  /\ retDynamic = NoForecast
  /\ scalerObj = NoObject
  /\ varModel = NoObject

\* g.predAngCoef(datMod, g.coef): coefMod[variable] throws on null as soon as
\* there is a row to predict
PredAngCoefOf(g, datMod) ==
  IF g.coef = None
  THEN IF Len(datMod) > g.lags THEN Threw(g, "TypeError")
       ELSE Returned(g, Some(<<>>))
  ELSE Returned(g, Some(PredAngCoef(g, datMod, g.coef[1])))

\* a call of predAngCoef with the matrix it was given
PredAngCoefCalled(pre, datMod, r) ==
  [op |-> "predAngCoef", pre |-> GomBefore(pre), datMod |-> datMod,
   outcome |-> r.outcome, error |-> r.error, value |-> r.value]

PredAngCoefCall ==
  /\ \E datMod \in fc.matrices \cup CoefInputs(Len(gom.variables)) :
       \E r \in {PredAngCoefOf(gom, datMod)} :
         /\ gom' = r.obj
         /\ call' = PredAngCoefCalled(gom, datMod, r)
  /\ UNCHANGED <<imported, gomRest>>

NextCoef == DoGomCall \/ PredAngCoefCall

SpecCoef == InitCoef /\ [][NextCoef]_vars

\* the same number: the strict equality of the language
SameNumber(a, b) == a.k # "undefined" /\ b.k # "undefined" /\ NumEquals(a, b)

\* predAngCoef(data, coef)[i] is model.predict(data.slice(i, i + lags), 1)[0]
\* for every i in 0..data.length - lags - 1
MatchesOneStepPredict ==
  /\ call.outcome = "returned"
  /\ Len(call.value[1]) = Max2(Len(call.datMod) - gom.lags, 0)
  /\ \A i \in 1..Len(call.value[1]) :
       \E one \in {VarPredict(gom.model,
                              JsSlice(call.datMod, i - 1, (i - 1) + gom.lags), 1)} :
         /\ one.outcome = "returned"
         /\ Len(call.value[1][i]) = Len(gom.variables)
         /\ \A v \in 1..Len(gom.variables) :
              SameNumber(call.value[1][i][v], one.value[1].predictions[1][v])

\* every entry of the matrix is a finite number and every row has one entry
\* per variable
FiniteFrames(datMod, nv) ==
  \A t \in 1..Len(datMod) :
    /\ Len(datMod[t]) = nv
    /\ \A v \in 1..nv : IsFinite(datMod[t][v])

\* predAngCoef was called on an instance marked trained
CalledOnTrained ==
  /\ call.op = "predAngCoef"
  /\ gom.trained

\* the last doGom() of the instance fitted its VAR model, the one the
\* coefficients were read from, on a matrix with one column per variable
LastDoGomFitted == TrainedOnItsVariables(gom)

HasDefaultLabels == gom.coefLabels = DefaultCoefLabels(gom.variables)

\* C30: for a KfGom whose last doGom() returned, on a matrix whose columns
\* match its distinct variable names, predAngCoef(data, coef)[i] equals
\* model.predict(data.slice(i, i + lags), 1)[0] for every i in
\* 0..data.length - lags - 1, data being a matrix of finite numbers with one
\* column per variable
C30_PredAngCoefIsPredict ==
  (/\ CalledOnTrained
   /\ LastDoGomFitted
   /\ FiniteFrames(call.datMod, Len(gom.variables)))
    => MatchesOneStepPredict

\* what predAngCoef does reproduce: the prediction of an instance with the
\* default coefficient labels, "Bias" and `${variable}(t-${lag})`, the only
\* keys it looks up
PredAngCoefIsPredictWithDefaultLabels ==
  (/\ CalledOnTrained
   /\ HasDefaultLabels
   /\ LastDoGomFitted
   /\ FiniteFrames(call.datMod, Len(gom.variables)))
    => MatchesOneStepPredict

\* the statement for the default labels and data of finite numbers, whatever
\* the outcome of the last doGom()
PredAngCoefIsPredictAnyTraining ==
  (/\ CalledOnTrained
   /\ HasDefaultLabels
   /\ FiniteFrames(call.datMod, Len(gom.variables)))
    => MatchesOneStepPredict

\* the statement for the default labels and a last doGom() that returned,
\* whatever the data
PredAngCoefIsPredictAnyData ==
  (/\ CalledOnTrained
   /\ HasDefaultLabels
   /\ LastDoGomFitted)
    => MatchesOneStepPredict

\* the statement for the default labels, a last doGom() that returned and
\* the matrix of training
PredAngCoefIsPredictOnTraining ==
  (/\ CalledOnTrained
   /\ HasDefaultLabels
   /\ LastDoGomFitted
   /\ call.datMod \in fc.matrices)
    => MatchesOneStepPredict

\* two variables, default labels, predictions returned for data other than
\* the matrix of training
PredAngCoefWitness ==
  /\ CalledOnTrained
  /\ HasDefaultLabels
  /\ LastDoGomFitted
  /\ Len(gom.variables) = 2
  /\ FiniteFrames(call.datMod, 2)
  /\ call.datMod \notin fc.matrices
  /\ call.outcome = "returned"
  /\ Len(call.value[1]) >= 1

====
